---------------------------- MODULE Spec2Model ----------------------------
(***************************************************************************)
(* Model of the authentication and OTP subsystem of the temp-mail backend: *)
(* the in-memory OTP ledgers (utils/otpService.js), the User model over    *)
(* the credential store (models/User.js) and the auth controller's         *)
(* handlers (the auth controller in controllers/emailController.js).       *)
(*                                                                         *)
(* Node runs one handler at a time between awaits, so every action below   *)
(* is one synchronous segment of a handler: the code from one await to the *)
(* next.  A request that is suspended at an await is a record of the set   *)
(* inflight, whose pc names the await it is suspended at.                  *)
(***************************************************************************)
EXTENDS Integers, FiniteSets, Sequences, TLC

VARIABLES
    now,             \* Date.now(), counted in units of the OTP validity
    otpStore,        \* otpService.js: otpStore       (password-reset ledger)
    signupOtpStore,  \* otpService.js: signupOtpStore (signup ledger)
    users,           \* rows of the users table (the credential store)
    nextId,          \* the next id the users table hands out
    inflight,        \* requests suspended at an await
    lastResp,        \* the response, result or log line most recently written
    mailLog,         \* number of mails the mail collaborator accepted
    nreq,            \* number of requests started so far
    wrongCalls,      \* history: wrong-code verify calls since the record's store
    otpOK,           \* history: verify-otp succeeded on the reset record held
    zeroTtl,         \* history: records stored with expiryMinutes = 0 and not verified since
    resetsDone,      \* history: reset-password successes since the last verify-otp success
    emails,          \* rows of the emails table (the stored messages)
    tempEmails,      \* rows of the temp_emails table
    nextEmailId      \* the next id the emails table hands out

vars == <<now, otpStore, signupOtpStore, users, nextId, inflight, lastResp,
          mailLog, nreq, wrongCalls, otpOK, zeroTtl, resetsDone,
          emails, tempEmails, nextEmailId>>

MailVars == <<emails, tempEmails, nextEmailId>>

-----------------------------------------------------------------------------
(* Bounds of the model *)

MaxTime == 2
MaxInflight == 2
MaxRequests == 4

(* Program constants *)

MaxAttempts == 5
DefaultExpiryMinutes == 10
\* the clock unit: one tick is one OTP validity period
MinutesPerTick == DefaultExpiryMinutes

(* Inputs *)

RawEmails == {"a@x.com", "A@x.com", " a@x.com"}
\* the spellings the HTTP requests of the model carry
HttpEmails == {"a@x.com", " a@x.com"}
Codes == {"111111", "222222"}
Passwords == {"pw1", "pw2"}
GoogleIds == {"g1", "g2"}

\* String.prototype.toLowerCase on the input spellings
toLowerCase(e) == IF e = "A@x.com" THEN "a@x.com" ELSE e
\* String.prototype.trim on the input spellings
trim(e) == IF e = " a@x.com" THEN "a@x.com" ELSE e

LedgerKeys == {toLowerCase(e) : e \in RawEmails}
CanonEmails == {trim(toLowerCase(e)) : e \in RawEmails}

-----------------------------------------------------------------------------
(* bcrypt.  A hash is the plaintext wrapped once more: hashing a hash gives *)
(* a value that compares equal to no plaintext of Passwords.                *)

Plain(p) == [lvl |-> 0, pw |-> p]
NoPassword == [lvl |-> -1, pw |-> ""]
bcryptHash(x) == [lvl |-> x.lvl + 1, pw |-> x.pw]
bcryptCompare(x, h) == h = bcryptHash(x)

-----------------------------------------------------------------------------
(* The OTP ledgers: utils/otpService.js *)

NoRecord == [absent |-> TRUE]
Has(store, k) == store[k] # NoRecord

NoUserData == [email |-> "", password |-> NoPassword]

Result(ok, msg, remaining, data) ==
    [success |-> ok, message |-> msg, remainingAttempts |-> remaining, userData |-> data]

MsgNotFound == "No OTP found. Please request a new one."
MsgExpired == "OTP has expired. Please request a new one."
MsgTooMany == "Too many failed attempts. Please request a new OTP."
MsgVerified == "OTP verified successfully"
MsgInvalid == "Invalid OTP. N attempts remaining."

\* storeOTP that updates the code and the expiry of a record already held
\* and keeps its attempts and its verified flag
storeOTP_KeepsVerified(store, email, otp, expiryMinutes, t) ==
    [store EXCEPT ![toLowerCase(email)] =
        [otp |-> otp,
         expiryTime |-> t + (expiryMinutes \div MinutesPerTick),
         attempts |-> IF @ = NoRecord THEN 0 ELSE @.attempts,
         verified |-> IF @ = NoRecord THEN FALSE ELSE @.verified]]

\* storeOTP(email, otp, expiryMinutes): the new otpStore
storeOTP(store, email, otp, expiryMinutes, t) ==
    [store EXCEPT ![toLowerCase(email)] =
        [otp |-> otp,
         expiryTime |-> t + (expiryMinutes \div MinutesPerTick),
         attempts |-> 0,
         verified |-> FALSE]]

\* storeSignupOTP(email, otp, userData, expiryMinutes): the new signupOtpStore
storeSignupOTP(store, email, otp, userData, expiryMinutes, t) ==
    [store EXCEPT ![toLowerCase(email)] =
        [otp |-> otp,
         userData |-> userData,
         expiryTime |-> t + (expiryMinutes \div MinutesPerTick),
         attempts |-> 0]]

\* verifyOTP with the attempts limit off by one (attempts > 5)
verifyOTPUtil_OffByOne(store, email, otp, t) ==
    LET emailKey == toLowerCase(email)
        stored == store[emailKey]
    IN  IF emailKey \notin DOMAIN store \/ stored = NoRecord
        THEN [store |-> store, result |-> Result(FALSE, MsgNotFound, -1, NoUserData)]
        ELSE IF t > stored.expiryTime
        THEN [store |-> [store EXCEPT ![emailKey] = NoRecord],
              result |-> Result(FALSE, MsgExpired, -1, NoUserData)]
        ELSE IF stored.attempts > MaxAttempts
        THEN [store |-> [store EXCEPT ![emailKey] = NoRecord],
              result |-> Result(FALSE, MsgTooMany, -1, NoUserData)]
        ELSE IF stored.otp = otp
        THEN [store |-> [store EXCEPT ![emailKey] = [stored EXCEPT !.verified = TRUE]],
              result |-> Result(TRUE, MsgVerified, -1, NoUserData)]
        ELSE [store |-> [store EXCEPT ![emailKey] =
                            [stored EXCEPT !.attempts = stored.attempts + 1]],
              result |-> Result(FALSE, MsgInvalid,
                                MaxAttempts - (stored.attempts + 1), NoUserData)]

\* verifyOTP(email, otp): the new otpStore and the returned object
verifyOTPUtil(store, email, otp, t) ==
    LET emailKey == toLowerCase(email)
        stored == store[emailKey]
    IN  IF emailKey \notin DOMAIN store \/ stored = NoRecord
        THEN [store |-> store, result |-> Result(FALSE, MsgNotFound, -1, NoUserData)]
        ELSE IF t > stored.expiryTime
        THEN [store |-> [store EXCEPT ![emailKey] = NoRecord],
              result |-> Result(FALSE, MsgExpired, -1, NoUserData)]
        ELSE IF stored.attempts >= MaxAttempts
        THEN [store |-> [store EXCEPT ![emailKey] = NoRecord],
              result |-> Result(FALSE, MsgTooMany, -1, NoUserData)]
        ELSE IF stored.otp = otp
        THEN [store |-> [store EXCEPT ![emailKey] = [stored EXCEPT !.verified = TRUE]],
              result |-> Result(TRUE, MsgVerified, -1, NoUserData)]
        ELSE [store |-> [store EXCEPT ![emailKey] =
                            [stored EXCEPT !.attempts = stored.attempts + 1]],
              result |-> Result(FALSE, MsgInvalid,
                                MaxAttempts - (stored.attempts + 1), NoUserData)]

\* verifySignupOTP with the attempts check made before the expiry check
verifySignupOTPUtil_AttemptsFirst(store, email, otp, t) ==
    LET emailKey == toLowerCase(email)
        stored == store[emailKey]
    IN  IF emailKey \notin DOMAIN store \/ stored = NoRecord
        THEN [store |-> store, result |-> Result(FALSE, MsgNotFound, -1, NoUserData)]
        ELSE IF stored.attempts >= MaxAttempts
        THEN [store |-> [store EXCEPT ![emailKey] = NoRecord],
              result |-> Result(FALSE, MsgTooMany, -1, NoUserData)]
        ELSE IF t > stored.expiryTime
        THEN [store |-> [store EXCEPT ![emailKey] = NoRecord],
              result |-> Result(FALSE, MsgExpired, -1, NoUserData)]
        ELSE IF stored.otp = otp
        THEN [store |-> store,
              result |-> Result(TRUE, MsgVerified, -1, stored.userData)]
        ELSE [store |-> [store EXCEPT ![emailKey] =
                            [stored EXCEPT !.attempts = stored.attempts + 1]],
              result |-> Result(FALSE, MsgInvalid,
                                MaxAttempts - (stored.attempts + 1), NoUserData)]

\* verifySignupOTP whose write of the incremented attempts is lost
verifySignupOTPUtil_LostUpdate(store, email, otp, t) ==
    LET emailKey == toLowerCase(email)
        stored == store[emailKey]
    IN  IF emailKey \notin DOMAIN store \/ stored = NoRecord
        THEN [store |-> store, result |-> Result(FALSE, MsgNotFound, -1, NoUserData)]
        ELSE IF t > stored.expiryTime
        THEN [store |-> [store EXCEPT ![emailKey] = NoRecord],
              result |-> Result(FALSE, MsgExpired, -1, NoUserData)]
        ELSE IF stored.attempts >= MaxAttempts
        THEN [store |-> [store EXCEPT ![emailKey] = NoRecord],
              result |-> Result(FALSE, MsgTooMany, -1, NoUserData)]
        ELSE IF stored.otp = otp
        THEN [store |-> store,
              result |-> Result(TRUE, MsgVerified, -1, stored.userData)]
        ELSE [store |-> [store EXCEPT ![emailKey] =
                            [stored EXCEPT !.attempts = stored.attempts]],
              result |-> Result(FALSE, MsgInvalid,
                                MaxAttempts - (stored.attempts + 1), NoUserData)]

\* verifySignupOTP(email, otp): the new signupOtpStore and the returned object
verifySignupOTPUtil(store, email, otp, t) ==
    LET emailKey == toLowerCase(email)
        stored == store[emailKey]
    IN  IF emailKey \notin DOMAIN store \/ stored = NoRecord
        THEN [store |-> store, result |-> Result(FALSE, MsgNotFound, -1, NoUserData)]
        ELSE IF t > stored.expiryTime
        THEN [store |-> [store EXCEPT ![emailKey] = NoRecord],
              result |-> Result(FALSE, MsgExpired, -1, NoUserData)]
        ELSE IF stored.attempts >= MaxAttempts
        THEN [store |-> [store EXCEPT ![emailKey] = NoRecord],
              result |-> Result(FALSE, MsgTooMany, -1, NoUserData)]
        ELSE IF stored.otp = otp
        THEN [store |-> store,
              result |-> Result(TRUE, MsgVerified, -1, stored.userData)]
        ELSE [store |-> [store EXCEPT ![emailKey] =
                            [stored EXCEPT !.attempts = stored.attempts + 1]],
              result |-> Result(FALSE, MsgInvalid,
                                MaxAttempts - (stored.attempts + 1), NoUserData)]

\* isOTPVerified without the test of stored.expiryTime
isOTPVerified_IgnoresExpiry(store, email, t) ==
    LET k == toLowerCase(email)
    IN  /\ k \in DOMAIN store
        /\ store[k] # NoRecord
        /\ store[k].verified

\* isOTPVerified without the test of stored.verified
isOTPVerified_IgnoresFlag(store, email, t) ==
    LET k == toLowerCase(email)
    IN  /\ k \in DOMAIN store
        /\ store[k] # NoRecord
        /\ t <= store[k].expiryTime

\* isOTPVerified(email)
isOTPVerified(store, email, t) ==
    LET k == toLowerCase(email)
    IN  /\ k \in DOMAIN store
        /\ store[k] # NoRecord
        /\ store[k].verified
        /\ t <= store[k].expiryTime

\* clearOTP(email) and clearSignupOTP(email): Map.delete under the lower-cased key
clearOTP(store, email) ==
    IF toLowerCase(email) \in DOMAIN store
    THEN [store EXCEPT ![toLowerCase(email)] = NoRecord]
    ELSE store

clearSignupOTP(store, email) ==
    IF toLowerCase(email) \in DOMAIN store
    THEN [store EXCEPT ![toLowerCase(email)] = NoRecord]
    ELSE store

\* the sweep with the expiry test of a record not strict (now >= expiryTime)
cleanupExpired_AtExpiry(store, t) ==
    [k \in DOMAIN store |->
        IF store[k] # NoRecord /\ t >= store[k].expiryTime THEN NoRecord ELSE store[k]]

\* the sweep sparing the records that were verified
cleanupExpired_SparesVerified(store, t) ==
    [k \in DOMAIN store |->
        IF /\ store[k] # NoRecord
           /\ t > store[k].expiryTime
           /\ ~("verified" \in DOMAIN store[k] /\ store[k].verified)
        THEN NoRecord ELSE store[k]]

\* one ledger's loop of cleanupExpiredOTPs
cleanupExpired(store, t) ==
    [k \in DOMAIN store |->
        IF store[k] # NoRecord /\ t > store[k].expiryTime THEN NoRecord ELSE store[k]]


-----------------------------------------------------------------------------
(* History bookkeeping shared by every action that writes a ledger *)

\* wrong-code count of the records that are still held; 0 where none is held
KeepCounts(w, store) == [k \in LedgerKeys |-> IF Has(store, k) THEN w[k] ELSE 0]

\* the count after a verify call on emailKey that submitted otp
CountVerify(w, store, storeAfter, emailKey, otp) ==
    [k \in LedgerKeys |->
        IF ~Has(storeAfter, k) THEN 0
        ELSE IF k = emailKey /\ Has(store, k) /\ store[k].otp # otp /\ w[k] < MaxAttempts + 1
        THEN w[k] + 1
        ELSE w[k]]

\* verify-otp succeeded on the reset record still held under k
KeepOK(ok, store) == [k \in LedgerKeys |-> ok[k] /\ Has(store, k)]

\* the zero-validity records that are still held
KeepZero(z, rstore, sstore) ==
    {x \in z : IF x[1] = "reset" THEN Has(rstore, x[2]) ELSE Has(sstore, x[2])}

\* the users table the server finds when it starts: empty, or holding an
\* account registered with a password during an earlier run
InitialTables ==
    {{}, {[id |-> 1, email |-> "a@x.com", password |-> bcryptHash(Plain("pw1")),
           google_id |-> ""]}}

NoResp == [op |-> "none"]

Init ==
    /\ now = 0
    /\ otpStore = [k \in LedgerKeys |-> NoRecord]
    /\ signupOtpStore = [k \in LedgerKeys |-> NoRecord]
    /\ users \in InitialTables
    /\ nextId = Cardinality(users) + 1
    /\ inflight = {}
    /\ lastResp = NoResp
    /\ mailLog = 0
    /\ nreq = 0
    /\ wrongCalls = [reset |-> [k \in LedgerKeys |-> 0], signup |-> [k \in LedgerKeys |-> 0]]
    /\ otpOK = [k \in LedgerKeys |-> FALSE]
    /\ zeroTtl = {}
    /\ resetsDone = 0
    /\ emails = {}
    /\ tempEmails = {}
    /\ nextEmailId = 1

\* Date.now() advances
Tick ==
    /\ now < MaxTime
    /\ now' = now + 1
    /\ UNCHANGED <<otpStore, signupOtpStore, users, nextId, inflight, lastResp,
                   mailLog, nreq, wrongCalls, otpOK, zeroTtl, resetsDone>>
    /\ UNCHANGED MailVars

\* the number of records a sweep deleted from a ledger
Removed(store, storeAfter) ==
    Cardinality({k \in DOMAIN store : Has(store, k) /\ ~Has(storeAfter, k)})

\* the line the sweep logs when it deleted something
CleanupLog(cleaned) == [op |-> "cleanupExpiredOTPs", cleaned |-> cleaned]

\* the setInterval callback: cleanupExpiredOTPs()
Cleanup ==
    /\ otpStore' = cleanupExpired(otpStore, now)
    /\ signupOtpStore' = cleanupExpired(signupOtpStore, now)
    /\ wrongCalls' = [reset |-> KeepCounts(wrongCalls.reset, otpStore'),
                      signup |-> KeepCounts(wrongCalls.signup, signupOtpStore')]
    /\ otpOK' = KeepOK(otpOK, otpStore')
    /\ zeroTtl' = KeepZero(zeroTtl, otpStore', signupOtpStore')
    /\ lastResp' = LET cleaned == Removed(otpStore, otpStore')
                                    + Removed(signupOtpStore, signupOtpStore')
                   IN  IF cleaned > 0 THEN CleanupLog(cleaned) ELSE lastResp
    /\ UNCHANGED <<now, users, nextId, inflight, mailLog, nreq, resetsDone>>
    /\ UNCHANGED MailVars

-----------------------------------------------------------------------------
(* SpecLedger: the ledger module driven through its exported functions,    *)
(* with the expiry argument a caller may pass                               *)

LedgerEmails == {"a@x.com", "A@x.com"}
ExpiryChoices == {0, DefaultExpiryMinutes}
PendingChoices == {[email |-> "a@x.com", password |-> bcryptHash(Plain(p))] : p \in {"pw1"}}

LedgerFrame ==
    UNCHANGED <<users, nextId, inflight, mailLog, nreq, resetsDone, emails, tempEmails, nextEmailId>>

Returned(op, email, otp, stored, r) ==
    [op |-> op, key |-> toLowerCase(email),
     matched |-> stored # NoRecord /\ stored.otp = otp,
     attemptsBefore |-> IF stored # NoRecord THEN stored.attempts ELSE -1,
     success |-> r.success, message |-> r.message,
     remainingAttempts |-> r.remainingAttempts, userData |-> r.userData]

LStoreOTP(email, otp, expiryMinutes) ==
    /\ otpStore' = storeOTP(otpStore, email, otp, expiryMinutes, now)
    /\ wrongCalls' = [wrongCalls EXCEPT !.reset[toLowerCase(email)] = 0]
    /\ otpOK' = [otpOK EXCEPT ![toLowerCase(email)] = FALSE]
    /\ zeroTtl' = IF expiryMinutes = 0
                  THEN zeroTtl \cup {<<"reset", toLowerCase(email)>>}
                  ELSE zeroTtl \ {<<"reset", toLowerCase(email)>>}
    /\ UNCHANGED <<now, signupOtpStore, lastResp>>
    /\ LedgerFrame

LStoreSignupOTP(email, otp, userData, expiryMinutes) ==
    /\ signupOtpStore' = storeSignupOTP(signupOtpStore, email, otp, userData, expiryMinutes, now)
    /\ wrongCalls' = [wrongCalls EXCEPT !.signup[toLowerCase(email)] = 0]
    /\ zeroTtl' = IF expiryMinutes = 0
                  THEN zeroTtl \cup {<<"signup", toLowerCase(email)>>}
                  ELSE zeroTtl \ {<<"signup", toLowerCase(email)>>}
    /\ UNCHANGED <<now, otpStore, lastResp, otpOK>>
    /\ LedgerFrame

LVerifyOTP(email, otp) ==
    LET k == toLowerCase(email)
        v == verifyOTPUtil(otpStore, email, otp, now)
    IN  /\ otpStore' = v.store
        /\ lastResp' = Returned("verifyOTP", email, otp, otpStore[k], v.result)
        /\ wrongCalls' = [wrongCalls EXCEPT
                            !.reset = CountVerify(wrongCalls.reset, otpStore, v.store, k, otp)]
        /\ otpOK' = [j \in LedgerKeys |->
                        Has(v.store, j) /\ (otpOK[j] \/ (j = k /\ v.result.success))]
        /\ zeroTtl' = zeroTtl \ {<<"reset", k>>}
        /\ UNCHANGED <<now, signupOtpStore>>
        /\ LedgerFrame

LVerifySignupOTP(email, otp) ==
    LET k == toLowerCase(email)
        v == verifySignupOTPUtil(signupOtpStore, email, otp, now)
    IN  /\ signupOtpStore' = v.store
        /\ lastResp' = Returned("verifySignupOTP", email, otp, signupOtpStore[k], v.result)
        /\ wrongCalls' = [wrongCalls EXCEPT
                            !.signup = CountVerify(wrongCalls.signup, signupOtpStore, v.store, k, otp)]
        /\ zeroTtl' = zeroTtl \ {<<"signup", k>>}
        /\ UNCHANGED <<now, otpStore, otpOK>>
        /\ LedgerFrame

LClearOTP(email) ==
    /\ otpStore' = clearOTP(otpStore, email)
    /\ wrongCalls' = [wrongCalls EXCEPT !.reset = KeepCounts(wrongCalls.reset, otpStore')]
    /\ otpOK' = KeepOK(otpOK, otpStore')
    /\ zeroTtl' = zeroTtl \ {<<"reset", toLowerCase(email)>>}
    /\ UNCHANGED <<now, signupOtpStore, lastResp>>
    /\ LedgerFrame

\* clearSignupOTP that deletes the email's record from both ledgers
LClearSignupOTP_ClearsBoth(email) ==
    /\ signupOtpStore' = clearSignupOTP(signupOtpStore, email)
    /\ otpStore' = clearOTP(otpStore, email)
    /\ wrongCalls' = [reset |-> KeepCounts(wrongCalls.reset, otpStore'),
                      signup |-> KeepCounts(wrongCalls.signup, signupOtpStore')]
    /\ otpOK' = KeepOK(otpOK, otpStore')
    /\ zeroTtl' = zeroTtl \ {<<"signup", toLowerCase(email)>>, <<"reset", toLowerCase(email)>>}
    /\ UNCHANGED <<now, lastResp>>
    /\ LedgerFrame

LClearSignupOTP(email) ==
    /\ signupOtpStore' = clearSignupOTP(signupOtpStore, email)
    /\ wrongCalls' = [wrongCalls EXCEPT !.signup = KeepCounts(wrongCalls.signup, signupOtpStore')]
    /\ zeroTtl' = zeroTtl \ {<<"signup", toLowerCase(email)>>}
    /\ UNCHANGED <<now, otpStore, lastResp, otpOK>>
    /\ LedgerFrame

NextLedger ==
    \/ Tick
    \/ Cleanup
    \/ \E e \in LedgerEmails, c \in Codes, m \in ExpiryChoices : LStoreOTP(e, c, m)
    \/ \E e \in LedgerEmails, c \in Codes, d \in PendingChoices, m \in ExpiryChoices :
           LStoreSignupOTP(e, c, d, m)
    \/ \E e \in LedgerEmails, c \in Codes : LVerifyOTP(e, c)
    \/ \E e \in LedgerEmails, c \in Codes : LVerifySignupOTP(e, c)
    \/ \E e \in LedgerEmails : LClearOTP(e)
    \/ \E e \in LedgerEmails : LClearSignupOTP(e)

InitLedger == Init /\ users = {}

SpecLedger == InitLedger /\ [][NextLedger]_vars

-----------------------------------------------------------------------------
(* The credential store: models/User.js over the users table *)

NoUser == [id |-> 0, email |-> "", password |-> NoPassword, google_id |-> ""]

\* what `throw new Error("Failed to ...: " + error.message)` raises: an Error
\* object, which has no code property
NoCode == "undefined"
WrappedError(msg) == [message |-> msg, code |-> NoCode]
NoError == [message |-> "", code |-> NoCode]
\* the code the controller's catch blocks compare error.code with
DuplicateKeyCode == "11000"

\* User.findByEmail(email)
findByEmail(us, email) ==
    LET rows == {u \in us : u.email = trim(toLowerCase(email))}
    IN  IF rows = {} THEN NoUser ELSE CHOOSE u \in rows : TRUE

\* User.findById(id)
findById(us, id) ==
    LET rows == {u \in us : u.id = id}
    IN  IF rows = {} THEN NoUser ELSE CHOOSE u \in rows : TRUE

\* User.findByGoogleId(googleId)
findByGoogleId(us, googleId) ==
    LET rows == {u \in us : u.google_id = googleId}
    IN  IF rows = {} THEN NoUser ELSE CHOOSE u \in rows : TRUE

\* User.create over a table that has no UNIQUE constraints
UserCreate_NoUniqueCheck(us, id, email, password, googleId) ==
    LET row == [id |-> id,
                email |-> trim(toLowerCase(email)),
                password |-> IF password = NoPassword THEN NoPassword
                             ELSE bcryptHash(password),
                google_id |-> googleId]
    IN  [ok |-> TRUE, users |-> us \cup {row}, user |-> row, error |-> NoError]

\* User.create({email, password, name, googleId}): hashes a password that is
\* given, inserts the row; the table's UNIQUE constraints on email and
\* google_id reject a duplicate and the error is re-thrown wrapped
UserCreate(us, id, email, password, googleId) ==
    LET row == [id |-> id,
                email |-> trim(toLowerCase(email)),
                password |-> IF password = NoPassword THEN NoPassword
                             ELSE bcryptHash(password),
                google_id |-> googleId]
        duplicate == \E u \in us :
                        \/ u.email = row.email
                        \/ (googleId # "" /\ u.google_id = googleId)
    IN  IF duplicate
        THEN [ok |-> FALSE, users |-> us, user |-> NoUser,
              error |-> WrappedError("Failed to create user")]
        ELSE [ok |-> TRUE, users |-> us \cup {row}, user |-> row, error |-> NoError]

\* verifyPassword that takes an account without a password hash as a match
verifyPassword_NoHashMatches(us, email, password) ==
    LET user == findByEmail(us, email)
    IN  IF user = NoUser THEN NoUser
        ELSE IF user.password # NoPassword /\ ~bcryptCompare(password, user.password)
        THEN NoUser
        ELSE [user EXCEPT !.password = NoPassword]

\* User.verifyPassword(email, password): the user without its password, or null
verifyPassword(us, email, password) ==
    LET user == findByEmail(us, email)
    IN  IF user = NoUser \/ user.password = NoPassword THEN NoUser
        ELSE IF ~bcryptCompare(password, user.password) THEN NoUser
        ELSE [user EXCEPT !.password = NoPassword]

\* User.updatePassword(id, newPassword) = User.update(id, {password}): the new table
updatePassword(us, id, newPassword) ==
    {IF u.id = id THEN [u EXCEPT !.password = bcryptHash(newPassword)] ELSE u : u \in us}

\* User.update(id, {google_id}): the new table, or the wrapped uniqueness error
updateGoogleId(us, id, googleId) ==
    IF \E u \in us : u.id # id /\ u.google_id = googleId
    THEN [ok |-> FALSE, users |-> us, error |-> WrappedError("Failed to update user")]
    ELSE [ok |-> TRUE,
          users |-> {IF u.id = id THEN [u EXCEPT !.google_id = googleId] ELSE u : u \in us},
          error |-> NoError]

\* utils/tokenManager.js generateToken({userId, email}): the signed payload
NoToken == [userId |-> 0, email |-> ""]
generateToken(user) == [userId |-> user.id, email |-> user.email]

-----------------------------------------------------------------------------
(* The HTTP handlers: controllers/authController.js *)

Resp(op, status, success, message, warning, token) ==
    [op |-> op, status |-> status, success |-> success, message |-> message,
     warning |-> warning, token |-> token]

MsgExists == "User with this email already exists"
MsgRegistered == "User registered successfully"
MsgRegisterFailed == "Failed to register user"
MsgCodeSent == "Verification code has been sent to your email address. Please check your inbox."
MsgCodeNotMailed == "Verification code generated. Note: Email service is currently unavailable."
MsgAccountCreated == "Account created successfully"
MsgCreateFailed == "Failed to create account. Please try again."
MsgBadLogin == "Invalid email or password"
MsgLoginOK == "Login successful"
MsgIfExists == "If an account exists with this email, you will receive an OTP shortly."
MsgOtpSent == "OTP has been sent to your email address. Please check your inbox."
MsgOtpNotMailed == "OTP generated. Note: Email service is currently unavailable."
MsgNeedVerify == "Please verify OTP before resetting password"
MsgUserNotFound == "User not found"
MsgResetOK == "Password has been reset successfully. You can now login with your new password."
NoWarning == ""
MailWarning == "Email delivery failed - check server logs"

\* a request suspended at an await
Req(rid, op, pc, email, password, userData, user, googleId) ==
    [rid |-> rid, op |-> op, pc |-> pc, email |-> email, password |-> password,
     userData |-> userData, user |-> user, googleId |-> googleId, raced |-> FALSE]

\* history: the verify-otp signup requests for the account of email that are
\* in flight are marked as having run concurrently with another one
MarkRaced(reqs, email) ==
    {IF x.op = "verifySignupOTP" /\ x.userData.email = email
     THEN [x EXCEPT !.raced = TRUE] ELSE x : x \in reqs}

Racing(reqs, email) == \E x \in reqs : x.op = "verifySignupOTP" /\ x.userData.email = email

\* spellings validateSignup's pattern lets through (no white space)
SignupEmails == {e \in HttpEmails : trim(e) = e}

CanStart == nreq < MaxRequests
CanSuspend == Cardinality(inflight) < MaxInflight

LedgerVars == <<otpStore, signupOtpStore, wrongCalls, otpOK, zeroTtl>>
DbVars == <<users, nextId, emails, tempEmails, nextEmailId>>

(* POST /auth/signup *)

\* signup up to `await User.findByEmail(email)` and the 409 that follows it
SignupFind(email, password) ==
    /\ CanStart
    /\ nreq' = nreq + 1
    /\ IF findByEmail(users, email) # NoUser
       THEN /\ lastResp' = Resp("signup", 409, FALSE, MsgExists, NoWarning, NoToken)
            /\ inflight' = inflight
       ELSE /\ CanSuspend
            /\ inflight' = inflight \cup
                  {Req(nreq', "signup", "create", email, Plain(password), NoUserData, NoUser, "")}
            /\ lastResp' = lastResp
    /\ UNCHANGED <<now, mailLog, resetsDone>>
    /\ UNCHANGED LedgerVars
    /\ UNCHANGED DbVars

\* status of the catch block of signup and of verifySignupOTP's create
CreateErrorStatus(error) == IF error.code = DuplicateKeyCode THEN 409 ELSE 500

\* signup from `await User.create(...)` to its response
SignupCreate(r) ==
    /\ r.op = "signup" /\ r.pc = "create"
    /\ LET c == UserCreate(users, nextId, trim(toLowerCase(r.email)), r.password, "")
       IN  /\ users' = c.users
           /\ nextId' = IF c.ok THEN nextId + 1 ELSE nextId
           /\ lastResp' =
                 IF c.ok
                 THEN Resp("signup", 201, TRUE, MsgRegistered, NoWarning, generateToken(c.user))
                 ELSE Resp("signup", CreateErrorStatus(c.error), FALSE,
                           IF CreateErrorStatus(c.error) = 409 THEN MsgExists
                           ELSE MsgRegisterFailed,
                           NoWarning, NoToken)
    /\ inflight' = inflight \ {r}
    /\ UNCHANGED <<now, mailLog, nreq, resetsDone>>
    /\ UNCHANGED LedgerVars
    /\ UNCHANGED MailVars

(* POST /auth/signup/request-otp *)

\* requestSignupOTP that never looks the email up
RequestOtpFind_NoLookup(email, password) ==
    /\ CanStart
    /\ nreq' = nreq + 1
    /\ CanSuspend
    /\ inflight' = inflight \cup
          {Req(nreq', "requestSignupOTP", "store", email, Plain(password),
               NoUserData, NoUser, "")}
    /\ lastResp' = lastResp
    /\ UNCHANGED <<now, mailLog, resetsDone>>
    /\ UNCHANGED LedgerVars
    /\ UNCHANGED DbVars

\* requestSignupOTP up to `await User.findByEmail(...)` and the 409 that follows it
RequestOtpFind(email, password) ==
    /\ CanStart
    /\ nreq' = nreq + 1
    /\ IF findByEmail(users, trim(toLowerCase(email))) # NoUser
       THEN /\ lastResp' = Resp("requestSignupOTP", 409, FALSE, MsgExists, NoWarning, NoToken)
            /\ inflight' = inflight
       ELSE /\ CanSuspend
            /\ inflight' = inflight \cup
                  {Req(nreq', "requestSignupOTP", "store", email, Plain(password),
                       NoUserData, NoUser, "")}
            /\ lastResp' = lastResp
    /\ UNCHANGED <<now, mailLog, resetsDone>>
    /\ UNCHANGED LedgerVars
    /\ UNCHANGED DbVars

\* requestSignupOTP from the bcrypt hash to its response; otp is generateOTP()'s
\* value and mailed tells whether sendSignupOTP resolved
RequestOtpStore(r, otp, mailed) ==
    /\ r.op = "requestSignupOTP" /\ r.pc = "store"
    /\ LET hashedPassword == bcryptHash(r.password)
           userData == [email |-> trim(toLowerCase(r.email)), password |-> hashedPassword]
       IN  signupOtpStore' = storeSignupOTP(signupOtpStore, r.email, otp, userData,
                                            DefaultExpiryMinutes, now)
    /\ wrongCalls' = [wrongCalls EXCEPT !.signup[toLowerCase(r.email)] = 0]
    /\ zeroTtl' = zeroTtl \ {<<"signup", toLowerCase(r.email)>>}
    /\ mailLog' = IF mailed THEN mailLog + 1 ELSE mailLog
    /\ lastResp' = IF mailed
                   THEN Resp("requestSignupOTP", 200, TRUE, MsgCodeSent, NoWarning, NoToken)
                   ELSE Resp("requestSignupOTP", 200, TRUE, MsgCodeNotMailed, MailWarning, NoToken)
    /\ inflight' = inflight \ {r}
    /\ UNCHANGED <<now, otpStore, otpOK, nreq, resetsDone>>
    /\ UNCHANGED DbVars

(* POST /auth/signup/verify-otp *)

\* verifySignupOTP up to `await User.create(result.userData)`, and the 400 of a
\* failed verification
VerifySignupCheck(email, otp) ==
    /\ CanStart
    /\ nreq' = nreq + 1
    /\ LET k == trim(toLowerCase(email))
           v == verifySignupOTPUtil(signupOtpStore, k, otp, now)
       IN  /\ signupOtpStore' = v.store
           /\ wrongCalls' = [wrongCalls EXCEPT
                  !.signup = CountVerify(wrongCalls.signup, signupOtpStore, v.store, k, otp)]
           /\ zeroTtl' = zeroTtl \ {<<"signup", k>>}
           /\ IF ~v.result.success
              THEN /\ lastResp' = Resp("verifySignupOTP", 400, FALSE, v.result.message,
                                       NoWarning, NoToken)
                   /\ inflight' = inflight
              ELSE /\ CanSuspend
                   /\ inflight' = MarkRaced(inflight, v.result.userData.email) \cup
                         {[Req(nreq', "verifySignupOTP", "create", email, NoPassword,
                               v.result.userData, NoUser, "")
                             EXCEPT !.raced = Racing(inflight, v.result.userData.email)]}
                   /\ lastResp' = lastResp
    /\ UNCHANGED <<now, otpStore, otpOK, mailLog, resetsDone>>
    /\ UNCHANGED DbVars

\* the insert of `await User.create(result.userData)`; on an error the catch
\* block answers at once
VerifySignupCreate(r) ==
    /\ r.op = "verifySignupOTP" /\ r.pc = "create"
    /\ LET c == UserCreate(users, nextId, r.userData.email, r.userData.password, "")
       IN  /\ users' = c.users
           /\ nextId' = IF c.ok THEN nextId + 1 ELSE nextId
           /\ IF c.ok
              THEN /\ inflight' = (inflight \ {r}) \cup {[r EXCEPT !.pc = "clear", !.user = c.user]}
                   /\ lastResp' = lastResp
              ELSE /\ inflight' = inflight \ {r}
                   /\ lastResp' = Resp("verifySignupOTP", CreateErrorStatus(c.error), FALSE,
                                       IF CreateErrorStatus(c.error) = 409 THEN MsgExists
                                       ELSE MsgCreateFailed,
                                       NoWarning, NoToken)
    /\ UNCHANGED <<now, mailLog, nreq, resetsDone>>
    /\ UNCHANGED LedgerVars
    /\ UNCHANGED MailVars

\* verifySignupOTP after the create: token, clearSignupOTP(email), 201
VerifySignupFinish(r) ==
    /\ r.op = "verifySignupOTP" /\ r.pc = "clear"
    /\ signupOtpStore' = clearSignupOTP(signupOtpStore, r.email)
    /\ wrongCalls' = [wrongCalls EXCEPT !.signup = KeepCounts(wrongCalls.signup, signupOtpStore')]
    /\ zeroTtl' = KeepZero(zeroTtl, otpStore, signupOtpStore')
    /\ lastResp' = Resp("verifySignupOTP", 201, TRUE, MsgAccountCreated, NoWarning,
                        generateToken(r.user))
    /\ inflight' = inflight \ {r}
    /\ UNCHANGED <<now, otpStore, otpOK, mailLog, nreq, resetsDone>>
    /\ UNCHANGED DbVars

(* POST /auth/login *)

Login(email, password) ==
    /\ CanStart
    /\ nreq' = nreq + 1
    /\ LET user == verifyPassword(users, trim(toLowerCase(email)), Plain(password))
       IN  lastResp' = IF user = NoUser
                       THEN Resp("login", 401, FALSE, MsgBadLogin, NoWarning, NoToken)
                       ELSE Resp("login", 200, TRUE, MsgLoginOK, NoWarning, generateToken(user))
    /\ UNCHANGED <<now, inflight, mailLog, resetsDone>>
    /\ UNCHANGED LedgerVars
    /\ UNCHANGED DbVars

(* POST /auth/forgot-password *)

\* forgotPassword without the early return for an unknown email
ForgotFind_NoEarlyReturn(email) ==
    /\ CanStart
    /\ nreq' = nreq + 1
    /\ CanSuspend
    /\ inflight' = inflight \cup
          {Req(nreq', "forgotPassword", "store", email, NoPassword, NoUserData, NoUser, "")}
    /\ lastResp' = lastResp
    /\ UNCHANGED <<now, mailLog, resetsDone>>
    /\ UNCHANGED LedgerVars
    /\ UNCHANGED DbVars

\* forgotPassword up to `await User.findByEmail(...)` and the answer given
\* when no user is found
ForgotFind(email) ==
    /\ CanStart
    /\ nreq' = nreq + 1
    /\ IF findByEmail(users, trim(toLowerCase(email))) = NoUser
       THEN /\ lastResp' = Resp("forgotPassword", 200, TRUE, MsgIfExists, NoWarning, NoToken)
            /\ inflight' = inflight
       ELSE /\ CanSuspend
            /\ inflight' = inflight \cup
                  {Req(nreq', "forgotPassword", "store", email, NoPassword, NoUserData, NoUser, "")}
            /\ lastResp' = lastResp
    /\ UNCHANGED <<now, mailLog, resetsDone>>
    /\ UNCHANGED LedgerVars
    /\ UNCHANGED DbVars

\* forgotPassword with a mail failure surfaced as an error response
ForgotStore_MailFailureFatal(r, otp, mailed) ==
    /\ r.op = "forgotPassword" /\ r.pc = "store"
    /\ otpStore' = storeOTP(otpStore, r.email, otp, DefaultExpiryMinutes, now)
    /\ wrongCalls' = [wrongCalls EXCEPT !.reset[toLowerCase(r.email)] = 0]
    /\ otpOK' = [otpOK EXCEPT ![toLowerCase(r.email)] = FALSE]
    /\ zeroTtl' = zeroTtl \ {<<"reset", toLowerCase(r.email)>>}
    /\ resetsDone' = 0
    /\ mailLog' = IF mailed THEN mailLog + 1 ELSE mailLog
    /\ lastResp' = IF mailed
                   THEN Resp("forgotPassword", 200, TRUE, MsgOtpSent, NoWarning, NoToken)
                   ELSE Resp("forgotPassword", 500, FALSE, MsgOtpNotMailed, NoWarning, NoToken)
    /\ inflight' = inflight \ {r}
    /\ UNCHANGED <<now, signupOtpStore, nreq>>
    /\ UNCHANGED DbVars

\* forgotPassword from generateOTP() to its response; mailed tells whether
\* sendPasswordResetOTP resolved
ForgotStore(r, otp, mailed) ==
    /\ r.op = "forgotPassword" /\ r.pc = "store"
    /\ otpStore' = storeOTP(otpStore, r.email, otp, DefaultExpiryMinutes, now)
    /\ wrongCalls' = [wrongCalls EXCEPT !.reset[toLowerCase(r.email)] = 0]
    /\ otpOK' = [otpOK EXCEPT ![toLowerCase(r.email)] = FALSE]
    /\ zeroTtl' = zeroTtl \ {<<"reset", toLowerCase(r.email)>>}
    /\ resetsDone' = 0
    /\ mailLog' = IF mailed THEN mailLog + 1 ELSE mailLog
    /\ lastResp' = IF mailed
                   THEN Resp("forgotPassword", 200, TRUE, MsgOtpSent, NoWarning, NoToken)
                   ELSE Resp("forgotPassword", 200, TRUE, MsgOtpNotMailed, MailWarning, NoToken)
    /\ inflight' = inflight \ {r}
    /\ UNCHANGED <<now, signupOtpStore, nreq>>
    /\ UNCHANGED DbVars

(* POST /auth/verify-otp *)

VerifyOTP(email, otp) ==
    /\ CanStart
    /\ nreq' = nreq + 1
    /\ LET k == trim(toLowerCase(email))
           v == verifyOTPUtil(otpStore, k, otp, now)
       IN  /\ otpStore' = v.store
           /\ wrongCalls' = [wrongCalls EXCEPT
                  !.reset = CountVerify(wrongCalls.reset, otpStore, v.store, k, otp)]
           /\ otpOK' = [j \in LedgerKeys |->
                           Has(v.store, j) /\ (otpOK[j] \/ (j = k /\ v.result.success))]
           /\ zeroTtl' = zeroTtl \ {<<"reset", k>>}
           /\ lastResp' = Resp("verifyOTP", IF v.result.success THEN 200 ELSE 400,
                               v.result.success, v.result.message, NoWarning, NoToken)
           /\ resetsDone' = IF v.result.success THEN 0 ELSE resetsDone
    /\ UNCHANGED <<now, signupOtpStore, inflight, mailLog>>
    /\ UNCHANGED DbVars

(* POST /auth/reset-password *)

\* resetPassword up to `await User.findByEmail(...)`: the isOTPVerified gate
ResetGate(email, newPassword) ==
    /\ CanStart
    /\ nreq' = nreq + 1
    /\ IF ~isOTPVerified(otpStore, trim(toLowerCase(email)), now)
       THEN /\ lastResp' = Resp("resetPassword", 403, FALSE, MsgNeedVerify, NoWarning, NoToken)
            /\ inflight' = inflight
       ELSE /\ CanSuspend
            /\ inflight' = inflight \cup
                  {Req(nreq', "resetPassword", "find", email, Plain(newPassword),
                       NoUserData, NoUser, "")}
            /\ lastResp' = lastResp
    /\ UNCHANGED <<now, mailLog, resetsDone>>
    /\ UNCHANGED LedgerVars
    /\ UNCHANGED DbVars

\* the query of `await User.findByEmail(...)` and the 404 of resetPassword
ResetFind(r) ==
    /\ r.op = "resetPassword" /\ r.pc = "find"
    /\ LET user == findByEmail(users, trim(toLowerCase(r.email)))
       IN  IF user = NoUser
           THEN /\ lastResp' = Resp("resetPassword", 404, FALSE, MsgUserNotFound,
                                    NoWarning, NoToken)
                /\ inflight' = inflight \ {r}
           ELSE /\ inflight' = (inflight \ {r}) \cup {[r EXCEPT !.pc = "update", !.user = user]}
                /\ lastResp' = lastResp
    /\ UNCHANGED <<now, mailLog, nreq, resetsDone>>
    /\ UNCHANGED LedgerVars
    /\ UNCHANGED DbVars

\* the update of `await User.updatePassword(user.id, newPassword)`
ResetUpdate(r) ==
    /\ r.op = "resetPassword" /\ r.pc = "update"
    /\ users' = updatePassword(users, r.user.id, r.password)
    /\ inflight' = (inflight \ {r}) \cup {[r EXCEPT !.pc = "clear"]}
    /\ UNCHANGED <<now, nextId, lastResp, mailLog, nreq, resetsDone>>
    /\ UNCHANGED LedgerVars
    /\ UNCHANGED MailVars

\* resetPassword after the update: clearOTP(email) and the 200
ResetFinish(r) ==
    /\ r.op = "resetPassword" /\ r.pc = "clear"
    /\ otpStore' = clearOTP(otpStore, r.email)
    /\ wrongCalls' = [wrongCalls EXCEPT !.reset = KeepCounts(wrongCalls.reset, otpStore')]
    /\ otpOK' = KeepOK(otpOK, otpStore')
    /\ zeroTtl' = KeepZero(zeroTtl, otpStore', signupOtpStore)
    /\ resetsDone' = IF resetsDone < 2 THEN resetsDone + 1 ELSE resetsDone
    /\ lastResp' = Resp("resetPassword", 200, TRUE, MsgResetOK, NoWarning, NoToken)
    /\ inflight' = inflight \ {r}
    /\ UNCHANGED <<now, signupOtpStore, mailLog, nreq>>
    /\ UNCHANGED DbVars

(* GET /auth/google/callback: the GoogleStrategy verify callback of server.js, *)
(* then googleCallback                                                        *)

\* profile.emails[0].value of the profiles the provider presents
GoogleEmails == {"a@x.com", "b@x.com"}
MsgOAuthToken == "redirect /auth/callback?token="

\* googleCallback: the redirect that carries the token
GoogleDone(user) == Resp("google", 302, TRUE, MsgOAuthToken, NoWarning, generateToken(user))
\* done(error, null): the global error handler's response
GoogleFailed(error) == Resp("google", 500, FALSE, error.message, NoWarning, NoToken)

\* the callback up to the result of `await User.findByGoogleId(profile.id)`
GoogleFindId(googleId, email) ==
    /\ CanStart
    /\ nreq' = nreq + 1
    /\ LET user == findByGoogleId(users, googleId)
       IN  IF user # NoUser
           THEN /\ lastResp' = GoogleDone(user)
                /\ inflight' = inflight
           ELSE /\ CanSuspend
                /\ inflight' = inflight \cup
                      {Req(nreq', "google", "findEmail", email, NoPassword, NoUserData,
                           NoUser, googleId)}
                /\ lastResp' = lastResp
    /\ UNCHANGED <<now, mailLog, resetsDone>>
    /\ UNCHANGED LedgerVars
    /\ UNCHANGED DbVars

\* the verify callback without the lookup by email: every profile whose
\* google id is unknown goes on to create
GoogleFindEmail_SkipsEmail(r) ==
    /\ r.op = "google" /\ r.pc = "findEmail"
    /\ inflight' = (inflight \ {r}) \cup {[r EXCEPT !.pc = "create"]}
    /\ UNCHANGED <<now, lastResp, mailLog, nreq, resetsDone>>
    /\ UNCHANGED LedgerVars
    /\ UNCHANGED DbVars

\* the result of `await User.findByEmail(email)`
GoogleFindEmail(r) ==
    /\ r.op = "google" /\ r.pc = "findEmail"
    /\ LET user == findByEmail(users, r.email)
       IN  inflight' = (inflight \ {r}) \cup
              {IF user # NoUser THEN [r EXCEPT !.pc = "link", !.user = user]
               ELSE [r EXCEPT !.pc = "create"]}
    /\ UNCHANGED <<now, lastResp, mailLog, nreq, resetsDone>>
    /\ UNCHANGED LedgerVars
    /\ UNCHANGED DbVars

\* `await User.update(user.id, { google_id: profile.id })`
GoogleLink(r) ==
    /\ r.op = "google" /\ r.pc = "link"
    /\ LET u == updateGoogleId(users, r.user.id, r.googleId)
       IN  /\ users' = u.users
           /\ IF u.ok
              THEN /\ inflight' = (inflight \ {r}) \cup {[r EXCEPT !.pc = "refetch"]}
                   /\ lastResp' = lastResp
              ELSE /\ inflight' = inflight \ {r}
                   /\ lastResp' = GoogleFailed(u.error)
    /\ UNCHANGED <<now, nextId, mailLog, nreq, resetsDone>>
    /\ UNCHANGED LedgerVars
    /\ UNCHANGED MailVars

\* `user = await User.findById(user.id)`, then done(null, user) and googleCallback
GoogleRefetch(r) ==
    /\ r.op = "google" /\ r.pc = "refetch"
    /\ lastResp' = GoogleDone(findById(users, r.user.id))
    /\ inflight' = inflight \ {r}
    /\ UNCHANGED <<now, mailLog, nreq, resetsDone>>
    /\ UNCHANGED LedgerVars
    /\ UNCHANGED DbVars

\* `user = await User.create({email, name, googleId})`, then done and googleCallback
GoogleCreate(r) ==
    /\ r.op = "google" /\ r.pc = "create"
    /\ LET c == UserCreate(users, nextId, r.email, NoPassword, r.googleId)
       IN  /\ users' = c.users
           /\ nextId' = IF c.ok THEN nextId + 1 ELSE nextId
           /\ lastResp' = IF c.ok THEN GoogleDone(c.user) ELSE GoogleFailed(c.error)
    /\ inflight' = inflight \ {r}
    /\ UNCHANGED <<now, mailLog, nreq, resetsDone>>
    /\ UNCHANGED LedgerVars
    /\ UNCHANGED MailVars

\* direct signup and password login
AccountSteps ==
    \/ \E e \in SignupEmails, p \in Passwords : SignupFind(e, p)
    \/ \E r \in inflight : SignupCreate(r)
    \/ \E e \in HttpEmails, p \in Passwords : Login(e, p)

\* federated login
GoogleSteps ==
    \/ \E g \in GoogleIds, e \in GoogleEmails : GoogleFindId(g, e)
    \/ \E r \in inflight : GoogleFindEmail(r)
    \/ \E r \in inflight : GoogleLink(r)
    \/ \E r \in inflight : GoogleRefetch(r)
    \/ \E r \in inflight : GoogleCreate(r)

\* signup with OTP
SignupOtpSteps ==
    \/ \E e \in HttpEmails, p \in Passwords : RequestOtpFind(e, p)
    \/ \E r \in inflight, c \in Codes, m \in BOOLEAN : RequestOtpStore(r, c, m)
    \/ \E e \in HttpEmails, c \in Codes : VerifySignupCheck(e, c)
    \/ \E r \in inflight : VerifySignupCreate(r)
    \/ \E r \in inflight : VerifySignupFinish(r)

\* password reset with OTP
ResetSteps ==
    \/ \E e \in HttpEmails : ForgotFind(e)
    \/ \E r \in inflight, c \in Codes, m \in BOOLEAN : ForgotStore(r, c, m)
    \/ \E e \in HttpEmails, c \in Codes : VerifyOTP(e, c)
    \/ \E e \in HttpEmails, p \in Passwords : ResetGate(e, p)
    \/ \E r \in inflight : ResetFind(r)
    \/ \E r \in inflight : ResetUpdate(r)
    \/ \E r \in inflight : ResetFinish(r)

\* SpecSignup: direct signup, signup with OTP and login, with the clock and
\* the sweep
NextSignup == Tick \/ Cleanup \/ AccountSteps \/ SignupOtpSteps

SpecSignup == Init /\ [][NextSignup]_vars

\* SpecReset: the password-reset flow with the clock and the sweep, accounts
\* being created by direct signup
NextReset == Tick \/ Cleanup \/ AccountSteps \/ ResetSteps

SpecReset == Init /\ [][NextReset]_vars

\* SpecFederated: federated login next to direct signup and password login
NextFederated == AccountSteps \/ GoogleSteps

SpecFederated == Init /\ [][NextFederated]_vars


-----------------------------------------------------------------------------
(* Claims about the ledger functions, checked under SpecLedger *)

\* the record under k is held and has not expired
Live(store, k) == Has(store, k) /\ now <= store[k].expiryTime

\* C1: in either ledger, once five verify calls with a wrong code have been
\* made on a stored record (no store for that email in between), the next
\* verify call made while the record is still within its validity fails with
\* TooManyAttempts whatever code it submits, the correct code included, and
\* the ledger holds no record for that email after the call.
C1_SixthVerifyTooMany ==
    [][\A e \in LedgerEmails, c \in Codes :
        /\ (LVerifyOTP(e, c) /\ Live(otpStore, toLowerCase(e))
                /\ wrongCalls.reset[toLowerCase(e)] = MaxAttempts)
            => (lastResp'.message = MsgTooMany /\ ~lastResp'.success
                    /\ ~Has(otpStore', toLowerCase(e)))
        /\ (LVerifySignupOTP(e, c) /\ Live(signupOtpStore, toLowerCase(e))
                /\ wrongCalls.signup[toLowerCase(e)] = MaxAttempts)
            => (lastResp'.message = MsgTooMany /\ ~lastResp'.success
                    /\ ~Has(signupOtpStore', toLowerCase(e)))]_vars

\* C1 witness: a verify call that submitted the stored code was refused with
\* TooManyAttempts and the record is gone
C1_Witness ==
    /\ lastResp.op = "verifyOTP"
    /\ lastResp.matched
    /\ lastResp.attemptsBefore = MaxAttempts
    /\ lastResp.message = MsgTooMany
    /\ ~Has(otpStore, lastResp.key)

\* C7 as stated: a verify after expiresAt yields Expired and deletes the record,
\* and the first verify of a record stored with ttl = 0 yields Expired.
C7_Original ==
    [][\A e \in LedgerEmails, c \in Codes :
        /\ (LVerifyOTP(e, c) /\ Has(otpStore, toLowerCase(e)))
            => /\ (now > otpStore[toLowerCase(e)].expiryTime
                      \/ <<"reset", toLowerCase(e)>> \in zeroTtl)
                   => (lastResp'.message = MsgExpired /\ ~Has(otpStore', toLowerCase(e)))
        /\ (LVerifySignupOTP(e, c) /\ Has(signupOtpStore, toLowerCase(e)))
            => /\ (now > signupOtpStore[toLowerCase(e)].expiryTime
                      \/ <<"signup", toLowerCase(e)>> \in zeroTtl)
                   => (lastResp'.message = MsgExpired /\ ~Has(signupOtpStore', toLowerCase(e)))]_vars

\* C7 (amended): in either ledger a verify call made strictly after the
\* record's expiresAt fails with Expired whatever code is submitted and
\* whatever the attempts counter is, and deletes the record; a verify made at
\* or before expiresAt never yields Expired, so the first verify of a record
\* stored with ttl = 0 yields Expired exactly when the clock has advanced
\* since the store.
C7_ExpiredOnlyAfterExpiry ==
    [][\A e \in LedgerEmails, c \in Codes :
        /\ (LVerifyOTP(e, c) /\ Has(otpStore, toLowerCase(e)))
            => /\ now > otpStore[toLowerCase(e)].expiryTime
                   => (lastResp'.message = MsgExpired /\ ~lastResp'.success
                          /\ ~Has(otpStore', toLowerCase(e)))
               /\ now <= otpStore[toLowerCase(e)].expiryTime
                   => lastResp'.message # MsgExpired
        /\ (LVerifySignupOTP(e, c) /\ Has(signupOtpStore, toLowerCase(e)))
            => /\ now > signupOtpStore[toLowerCase(e)].expiryTime
                   => (lastResp'.message = MsgExpired /\ ~lastResp'.success
                          /\ ~Has(signupOtpStore', toLowerCase(e)))
               /\ now <= signupOtpStore[toLowerCase(e)].expiryTime
                   => lastResp'.message # MsgExpired]_vars

\* C7 witness: a verify that submitted the stored code on a record whose
\* attempts counter was exhausted came back Expired, and the record is gone
C7_Witness ==
    /\ lastResp.op = "verifySignupOTP"
    /\ lastResp.matched
    /\ lastResp.attemptsBefore = MaxAttempts
    /\ lastResp.message = MsgExpired
    /\ ~Has(signupOtpStore, lastResp.key)

-----------------------------------------------------------------------------
(* Claims about the password-reset flow, checked under SpecReset *)

Registered(email) == \E u \in users : u.email = trim(toLowerCase(email))

\* verify-otp has succeeded on the reset record now held for email, and that
\* record has not expired
VerifiedRecordHeld(email) ==
    LET k == trim(toLowerCase(email))
    IN  Has(otpStore, k) /\ otpOK[k] /\ now <= otpStore[k].expiryTime

\* C2: a reset-password request gets past its gate only if a verify-otp with
\* the matching code has succeeded on the reset record held for the email
\* when the request arrives (and that record has not expired); in every other
\* case (no record, record not verified, record replaced by a newer
\* forgot-password request) it is answered 403 and changes nothing; and a
\* stored password changes only by the update of a request that got past
\* the gate.
C2_ResetOnlyAfterVerify ==
    [][/\ \A e \in HttpEmails, p \in Passwords :
            ResetGate(e, p) =>
                IF VerifiedRecordHeld(e)
                THEN \E r \in inflight' \ inflight :
                        r.op = "resetPassword" /\ r.email = e /\ r.password = Plain(p)
                ELSE /\ lastResp'.op = "resetPassword"
                     /\ lastResp'.status = 403
                     /\ ~lastResp'.success
                     /\ inflight' = inflight
                     /\ users' = users
       /\ \A u \in users, w \in users' :
            (u.id = w.id /\ u.password # w.password) =>
                \E r \in inflight :
                    /\ r.op = "resetPassword" /\ r.pc = "update"
                    /\ r.user.id = u.id
                    /\ w.password = bcryptHash(r.password)]_vars

\* C2 witness: a reset-password request was answered 200 and the account's
\* password is the hash of the new password
C2_Witness ==
    /\ lastResp.op = "resetPassword"
    /\ lastResp.status = 200
    /\ \E u \in users : u.password = bcryptHash(Plain("pw2"))

\* C3: after one successful verify-otp for an email, no more than one of the
\* reset-password requests that follow it is answered 200, however the
\* requests interleave at their awaits.
C3_ExactlyOneReset == resetsDone <= 1

\* C8: a forgot-password request for an email with no registered user is
\* answered 200 with success = true at once, leaves both ledgers and the mail
\* log unchanged and goes no further; the step of forgot-password that
\* stores a reset record and dispatches the mail only ever runs for a
\* registered email.
C8_UnknownEmailLeavesNoTrace ==
    [][/\ \A e \in HttpEmails :
            (ForgotFind(e) /\ ~Registered(e)) =>
                /\ lastResp'.op = "forgotPassword"
                /\ lastResp'.status = 200
                /\ lastResp'.success
                /\ otpStore' = otpStore
                /\ signupOtpStore' = signupOtpStore
                /\ mailLog' = mailLog
                /\ inflight' = inflight
       /\ \A r \in inflight, c \in Codes, m \in BOOLEAN :
            ForgotStore(r, c, m) => Registered(r.email)]_vars

\* C8 witness: forgot-password was answered for an email nobody registered
\* and no reset record or mail exists
C8_Witness ==
    /\ lastResp.op = "forgotPassword"
    /\ lastResp.success
    /\ users = {}
    /\ \A k \in LedgerKeys : ~Has(otpStore, k)
    /\ mailLog = 0

\* C9: every response to forgot-password carries the status, success flag and
\* message of the response given for an unregistered email.
C9_SameResponse ==
    lastResp.op = "forgotPassword" =>
        /\ lastResp.status = 200
        /\ lastResp.success
        /\ lastResp.message = MsgIfExists

-----------------------------------------------------------------------------
(* Claims about signup, checked under SpecSignup *)

\* C4: the password hash of the row that verify-otp signup inserts is the hash
\* request-otp computed and put in the pending payload, so the password
\* submitted in request-otp compares equal to it at login.
C4_HashedOnce ==
    [][\A r \in inflight :
        (VerifySignupCreate(r) /\ users' # users) =>
            \A u \in users' \ users :
                /\ u.password = r.userData.password
                /\ bcryptCompare(Plain(r.userData.password.pw), u.password)]_vars

\* C5: a direct signup or a verify-otp signup whose email is registered at the
\* moment the account would be created is answered 409 and creates no user.
C5_DuplicateIsConflict ==
    [][/\ \A e \in SignupEmails, p \in Passwords :
            (SignupFind(e, p) /\ Registered(e)) =>
                (lastResp'.op = "signup" /\ lastResp'.status = 409 /\ users' = users)
       /\ \A r \in inflight :
            (SignupCreate(r) /\ Registered(r.email)) =>
                (lastResp'.op = "signup" /\ lastResp'.status = 409 /\ users' = users)
       /\ \A r \in inflight :
            (VerifySignupCreate(r) /\ Registered(r.userData.email)) =>
                (lastResp'.op = "verifySignupOTP" /\ lastResp'.status = 409
                    /\ users' = users)]_vars

\* C6: of two verify-otp signup requests for one email that both carried the
\* correct code and ran concurrently, the one that reaches the insert first
\* creates the user, the other is answered 409, and no email ever has two rows.
C6_ConcurrentVerifyOneWins ==
    [][/\ \A r \in inflight :
            (VerifySignupCreate(r) /\ r.raced) =>
                IF Registered(r.userData.email)
                THEN lastResp'.op = "verifySignupOTP" /\ lastResp'.status = 409
                        /\ users' = users
                ELSE \E u \in users' \ users : u.email = r.userData.email
       /\ \A u \in users', w \in users' : u.email = w.email => u = w]_vars

-----------------------------------------------------------------------------
(* Claims about login, checked under SpecFederated *)

\* C10: a login that fails is answered with one and the same response (401,
\* "Invalid email or password") in all three cases: no user with that email,
\* a user without a password hash, a user whose hash does not match.
C10_LoginFailuresAlike ==
    [][\A e \in HttpEmails, p \in Passwords :
        LET rows == {u \in users : u.email = trim(toLowerCase(e))}
        IN  (Login(e, p)
                /\ \/ rows = {}
                   \/ \E u \in rows : u.password = NoPassword
                   \/ \E u \in rows : u.password # NoPassword
                                        /\ ~bcryptCompare(Plain(p), u.password))
            => lastResp' = Resp("login", 401, FALSE, MsgBadLogin, NoWarning, NoToken)]_vars

\* C10 witness: a login for an account that has no password hash was refused
C10_Witness ==
    /\ lastResp.op = "login"
    /\ lastResp.status = 401
    /\ \E u \in users : u.email = "a@x.com" /\ u.password = NoPassword

-----------------------------------------------------------------------------
(* Claims about federated login, checked under SpecFederated *)

\* no two rows of the table share an email or a (non-null) google_id
UniqueRows(us) ==
    \A u \in us, w \in us :
        (u.email = w.email \/ (u.google_id # "" /\ u.google_id = w.google_id)) => u = w

\* C11: federated login resolves the user by google id, then by email, then
\* creates: a profile whose google id is stored is answered with that user
\* and creates nothing; a request whose google id was unknown goes on to link
\* when its email is registered and to create only when it is not; the link
\* sets google_id on that user, keeps every row's id, email and password hash
\* and adds no row; the create adds a row without password hash; and no two
\* rows ever share an email or a google id.
C11_ResolutionOrder ==
    [][/\ \A g \in GoogleIds, e \in GoogleEmails :
            (GoogleFindId(g, e) /\ findByGoogleId(users, g) # NoUser) =>
                /\ lastResp' = GoogleDone(findByGoogleId(users, g))
                /\ users' = users
                /\ inflight' = inflight
       /\ \A r \in inflight :
            GoogleFindEmail(r) =>
                /\ users' = users
                /\ \E x \in inflight' :
                      /\ x.rid = r.rid
                      /\ x.pc = IF Registered(r.email) THEN "link" ELSE "create"
                      /\ Registered(r.email) => x.user = findByEmail(users, r.email)
       /\ \A r \in inflight :
            GoogleLink(r) =>
                /\ {w.id : w \in users'} = {u.id : u \in users}
                /\ \A u \in users, w \in users' :
                      u.id = w.id =>
                          /\ w.email = u.email
                          /\ w.password = u.password
                          /\ u.id # r.user.id => w = u
                          /\ (u.id = r.user.id /\ \E x \in inflight' : x.rid = r.rid)
                                => w.google_id = r.googleId
       /\ \A r \in inflight :
            GoogleCreate(r) =>
                \A w \in users' \ users :
                    /\ w.password = NoPassword
                    /\ w.google_id = r.googleId
                    /\ w.email = trim(toLowerCase(r.email))
                    /\ ~Registered(r.email)
                    /\ findByGoogleId(users, r.googleId) = NoUser
       /\ UniqueRows(users')]_vars

\* C11 witness: a federated login linked its google id onto the account that
\* was registered with a password, and another one created an account
\* without password hash
C11_Witness ==
    /\ lastResp.op = "google"
    /\ lastResp.status = 302
    /\ \E u \in users : u.password # NoPassword /\ u.google_id # ""
    /\ \E u \in users : u.password = NoPassword /\ u.google_id # ""

\* C12: every federated login ends with the redirect that carries a token
\* issued for a stored user.
C12_AlwaysToken ==
    lastResp.op = "google" =>
        /\ lastResp.status = 302
        /\ \E u \in users : lastResp.token = generateToken(u)

-----------------------------------------------------------------------------
(* Claims about signup with OTP, checked under SpecSignup *)

\* C13: when verify-otp signup answers 201 for a code stored by request-otp,
\* a user with the canonical email exists, the signup ledger holds no record
\* for that email, and the token of the response names that user's id and
\* email.
C13_VerifiedSignupLeavesUserAndNoRecord ==
    [][\A r \in inflight :
        VerifySignupFinish(r) =>
            LET k == trim(toLowerCase(r.email))
            IN  /\ lastResp'.status = 201
                /\ \E u \in users' :
                      /\ u.email = k
                      /\ lastResp'.token = [userId |-> u.id, email |-> u.email]
                /\ ~Has(signupOtpStore', k)]_vars

-----------------------------------------------------------------------------
(* Claims about both OTP flows, checked under SpecOtp *)

\* SpecOtp: signup with OTP and password reset with OTP side by side, with
\* the clock and the sweep
NextOtp == Tick \/ Cleanup \/ SignupOtpSteps \/ ResetSteps

SpecOtp == Init /\ [][NextOtp]_vars

-----------------------------------------------------------------------------
(* The request gates: middleware/auth.js *)

\* the user ids a presented token may name
TokenUserIds == {1, 2}
\* a token: the payload generateToken signs, whether the signature is the
\* server's, and whether its expiresIn has passed
Tokens ==
    [userId : TokenUserIds, email : {"a@x.com"}, signed : BOOLEAN, expired : BOOLEAN]
\* req.headers.authorization: absent, another scheme, or "Bearer <token>"
NoHeader == [scheme |-> "none"]
BasicHeader == [scheme |-> "Basic"]
Bearer(token) == [scheme |-> "Bearer", token |-> token]
AuthHeaders == {NoHeader, BasicHeader} \cup {Bearer(t) : t \in Tokens}

\* authHeader && authHeader.startsWith('Bearer ')
IsBearer(h) == h.scheme = "Bearer"
\* verifyToken(token) returns the payload (it throws otherwise)
TokenVerifies(token) == token.signed /\ ~token.expired

\* User.toJSON(user): the row without its password field
toJSON(user) == [f \in DOMAIN user \ {"password"} |-> user[f]]

MsgNoToken == "No token provided. Please login."
MsgUserGone == "User not found. Please login again."
MsgBadToken == "Invalid or expired token. Please login again."

\* what a gate ends with: the 401 it wrote (nextCalls = 0), or the response of
\* the handler it passed control to, with the user it attached to the request;
\* header is the Authorization header the request came with
GateResp(op, h, status, message, nextCalls, attached, user) ==
    [op |-> op, header |-> h, status |-> status, success |-> (status = 200), message |-> message,
     nextCalls |-> nextCalls, attached |-> attached, user |-> user]

\* a gate request suspended at `await User.findById(decoded.userId)`: it holds
\* the header it came with and decoded.userId
GateReq(rid, op, h) ==
    Req(rid, op, "findById", h.token.email, NoPassword, h,
        [NoUser EXCEPT !.id = h.token.userId], "")

\* authenticate up to `await User.findById(decoded.userId)`
AuthenticateHeader(h) ==
    /\ CanStart
    /\ nreq' = nreq + 1
    /\ IF ~IsBearer(h)
       THEN /\ lastResp' = GateResp("authenticate", h, 401, MsgNoToken, 0, FALSE, NoUser)
            /\ inflight' = inflight
       ELSE IF ~TokenVerifies(h.token)
       THEN /\ lastResp' = GateResp("authenticate", h, 401, MsgBadToken, 0, FALSE, NoUser)
            /\ inflight' = inflight
       ELSE /\ CanSuspend
            /\ inflight' = inflight \cup {GateReq(nreq', "authenticate", h)}
            /\ lastResp' = lastResp
    /\ UNCHANGED <<now, mailLog, resetsDone>>
    /\ UNCHANGED LedgerVars
    /\ UNCHANGED DbVars

\* authenticate with next() called also when no user was found
AuthenticateFound_SkipsUserCheck(r, failed) ==
    /\ r.op = "authenticate" /\ r.pc = "findById"
    /\ LET user == findById(users, r.user.id)
       IN  lastResp' =
              IF failed
              THEN GateResp("authenticate", r.userData, 401, MsgBadToken, 0, FALSE, NoUser)
              ELSE GateResp("authenticate", r.userData, 200, "", 1, TRUE, toJSON(user))
    /\ inflight' = inflight \ {r}
    /\ UNCHANGED <<now, mailLog, nreq, resetsDone>>
    /\ UNCHANGED LedgerVars
    /\ UNCHANGED DbVars

\* authenticate from the outcome of findById (failed: the store raised an
\* error) to the 401 or to next(), which runs getCurrentUser
AuthenticateFound(r, failed) ==
    /\ r.op = "authenticate" /\ r.pc = "findById"
    /\ LET user == findById(users, r.user.id)
       IN  lastResp' =
              IF failed
              THEN GateResp("authenticate", r.userData, 401, MsgBadToken, 0, FALSE, NoUser)
              ELSE IF user = NoUser
              THEN GateResp("authenticate", r.userData, 401, MsgUserGone, 0, FALSE, NoUser)
              ELSE GateResp("authenticate", r.userData, 200, "", 1, TRUE, toJSON(user))
    /\ inflight' = inflight \ {r}
    /\ UNCHANGED <<now, mailLog, nreq, resetsDone>>
    /\ UNCHANGED LedgerVars
    /\ UNCHANGED DbVars

\* optionalAuth for a request it does not look a user up for: no Bearer
\* header, or a token that does not verify; next() runs with no user
OptionalHeader(h) ==
    /\ CanStart
    /\ nreq' = nreq + 1
    /\ IF IsBearer(h) /\ TokenVerifies(h.token)
       THEN /\ CanSuspend
            /\ inflight' = inflight \cup {GateReq(nreq', "optionalAuth", h)}
            /\ lastResp' = lastResp
       ELSE /\ lastResp' = GateResp("optionalAuth", h, 200, "", 1, FALSE, NoUser)
            /\ inflight' = inflight
    /\ UNCHANGED <<now, mailLog, resetsDone>>
    /\ UNCHANGED LedgerVars
    /\ UNCHANGED DbVars

\* optionalAuth that attaches whatever the token names
OptionalFound_TrustsToken(r, failed) ==
    /\ r.op = "optionalAuth" /\ r.pc = "findById"
    /\ lastResp' = GateResp("optionalAuth", r.userData, 200, "", 1, TRUE, toJSON(r.user))
    /\ inflight' = inflight \ {r}
    /\ UNCHANGED <<now, mailLog, nreq, resetsDone>>
    /\ UNCHANGED LedgerVars
    /\ UNCHANGED DbVars

\* optionalAuth from the outcome of findById to next()
OptionalFound(r, failed) ==
    /\ r.op = "optionalAuth" /\ r.pc = "findById"
    /\ LET user == findById(users, r.user.id)
       IN  lastResp' =
              IF failed \/ user = NoUser
              THEN GateResp("optionalAuth", r.userData, 200, "", 1, FALSE, NoUser)
              ELSE GateResp("optionalAuth", r.userData, 200, "", 1, TRUE, toJSON(user))
    /\ inflight' = inflight \ {r}
    /\ UNCHANGED <<now, mailLog, nreq, resetsDone>>
    /\ UNCHANGED LedgerVars
    /\ UNCHANGED DbVars

GateSteps ==
    \/ \E h \in AuthHeaders : AuthenticateHeader(h)
    \/ \E r \in inflight, failed \in BOOLEAN : AuthenticateFound(r, failed)
    \/ \E h \in AuthHeaders : OptionalHeader(h)
    \/ \E r \in inflight, failed \in BOOLEAN : OptionalFound(r, failed)

\* SpecGate: the two gates next to direct signup and password login
NextGate == AccountSteps \/ GateSteps

SpecGate == Init /\ [][NextGate]_vars

-----------------------------------------------------------------------------
(* Claims about the request gates, checked under SpecGate *)

\* the strict gate's conditions on a request with header h over table us
GateAccepts(h, us) ==
    /\ IsBearer(h)
    /\ TokenVerifies(h.token)
    /\ findById(us, h.token.userId) # NoUser

\* C15: authenticate passes control to the protected handler only if the
\* header carries a Bearer token that verifies and names a user of the table;
\* a request that fails one of these is answered 401 without the handler
\* running, with the message of the first check it fails (no token, invalid
\* or expired, user not found); and the user attached on the success path has
\* no password field.
C15_StrictGate ==
    [][/\ \A h \in AuthHeaders :
            AuthenticateHeader(h) =>
                /\ ~IsBearer(h) =>
                      (lastResp' = GateResp("authenticate", h, 401, MsgNoToken, 0, FALSE, NoUser)
                         /\ inflight' = inflight)
                /\ (IsBearer(h) /\ ~TokenVerifies(h.token)) =>
                      (lastResp' = GateResp("authenticate", h, 401, MsgBadToken, 0, FALSE, NoUser)
                         /\ inflight' = inflight)
                /\ lastResp' # lastResp => lastResp'.nextCalls = 0
       /\ \A r \in inflight, failed \in BOOLEAN :
            AuthenticateFound(r, failed) =>
                /\ lastResp'.nextCalls = 1 =>
                      /\ GateAccepts(r.userData, users)
                      /\ lastResp'.attached
                      /\ lastResp'.user.id = r.userData.token.userId
                      /\ "password" \notin DOMAIN lastResp'.user
                /\ ~GateAccepts(r.userData, users) =>
                      /\ lastResp'.status = 401
                      /\ lastResp'.nextCalls = 0
                      /\ ~failed => lastResp'.message = MsgUserGone
                /\ lastResp'.nextCalls = 0 => lastResp'.status = 401]_vars

\* C15 witness: the gate passed a request on to the protected handler with
\* the stored user attached
C15_Witness ==
    /\ lastResp.op = "authenticate"
    /\ lastResp.nextCalls = 1
    /\ \E u \in users : u.id = lastResp.user.id /\ u.password # NoPassword

\* C16: optionalAuth never rejects: every request it ends passes control to
\* the next handler exactly once with no 401; it attaches a user only if the
\* strict gate's conditions hold for the request, and the request goes on
\* with no user when a check fails or the store raises an error.
C16_OptionalGate ==
    [][/\ \A h \in AuthHeaders :
            OptionalHeader(h) =>
                /\ lastResp' # lastResp =>
                      (lastResp'.nextCalls = 1 /\ lastResp'.status # 401
                         /\ ~lastResp'.attached /\ ~GateAccepts(h, users))
                /\ (~IsBearer(h) \/ ~TokenVerifies(h.token)) =>
                      (lastResp' = GateResp("optionalAuth", h, 200, "", 1, FALSE, NoUser)
                         /\ inflight' = inflight)
       /\ \A r \in inflight, failed \in BOOLEAN :
            OptionalFound(r, failed) =>
                /\ lastResp'.nextCalls = 1
                /\ lastResp'.status # 401
                /\ r \notin inflight'
                /\ lastResp'.attached =>
                      /\ GateAccepts(r.userData, users)
                      /\ lastResp'.user = toJSON(findById(users, r.userData.token.userId))
                /\ (failed \/ ~GateAccepts(r.userData, users)) => ~lastResp'.attached]_vars

\* C16 witness: optionalAuth let a request go on without a user after the
\* store raised an error for a token that names a stored user
C16_Witness ==
    /\ lastResp.op = "optionalAuth"
    /\ lastResp.nextCalls = 1
    /\ ~lastResp.attached
    /\ GateAccepts(lastResp.header, users)

-----------------------------------------------------------------------------
(* Claims about the ledger's keys and records *)

\* C17: every record of either ledger is held under the canonical email
\* (lower-cased and trimmed), whatever spelling the request that stored it
\* carried, which is where verify, isVerified and clear look for it.
C17_CanonicalKeys ==
    \A k \in LedgerKeys :
        (Has(otpStore, k) \/ Has(signupOtpStore, k)) => k \in CanonEmails

C19_LedgersIndependent ==
    [][\A e \in LedgerEmails, c \in Codes :
        /\ (\/ \E m \in ExpiryChoices, d \in PendingChoices : LStoreSignupOTP(e, c, d, m)
            \/ LVerifySignupOTP(e, c)
            \/ LClearSignupOTP(e))
              => /\ otpStore' = otpStore
                 /\ \A x \in LedgerEmails :
                       isOTPVerified(otpStore', x, now) = isOTPVerified(otpStore, x, now)
        /\ (\/ \E m \in ExpiryChoices : LStoreOTP(e, c, m)
            \/ LVerifyOTP(e, c)
            \/ LClearOTP(e))
              => signupOtpStore' = signupOtpStore
        /\ (LVerifyOTP(e, c) /\ lastResp'.success)
              => (Has(otpStore, toLowerCase(e)) /\ otpStore[toLowerCase(e)].otp = c)
        /\ (LVerifySignupOTP(e, c) /\ lastResp'.success)
              => (Has(signupOtpStore, toLowerCase(e))
                    /\ signupOtpStore[toLowerCase(e)].otp = c)]_vars

\* C19 witness: a verify on the reset ledger was refused as a wrong code and
\* counted there, while the signup ledger holds a record with another code
\* for the same email whose attempts are still 0
C19_Witness ==
    /\ lastResp.op = "verifyOTP"
    /\ ~lastResp.success
    /\ lastResp.message = MsgInvalid
    /\ Has(otpStore, lastResp.key)
    /\ Has(signupOtpStore, lastResp.key)
    /\ otpStore[lastResp.key].otp # signupOtpStore[lastResp.key].otp
    /\ otpStore[lastResp.key].attempts = 1
    /\ signupOtpStore[lastResp.key].attempts = 0

\* C20: one run of the sweep removes from both ledgers exactly the records
\* whose expiry is before the time of the run and leaves every other record
\* as it was.
C20_SweepRemovesExactlyExpired ==
    [][Cleanup =>
        \A k \in LedgerKeys :
            /\ otpStore'[k] =
                  IF Has(otpStore, k) /\ otpStore[k].expiryTime < now
                  THEN NoRecord ELSE otpStore[k]
            /\ signupOtpStore'[k] =
                  IF Has(signupOtpStore, k) /\ signupOtpStore[k].expiryTime < now
                  THEN NoRecord ELSE signupOtpStore[k]]_vars

\* C20 witness: the sweep deleted a record, and a record that has not
\* expired is held with the attempts it had before the sweep
C20_Witness ==
    /\ lastResp.op = "cleanupExpiredOTPs"
    /\ lastResp.cleaned >= 1
    /\ \E k \in LedgerKeys :
          Has(otpStore, k) /\ otpStore[k].attempts > 0 /\ otpStore[k].expiryTime >= now

-----------------------------------------------------------------------------
(* Claims about the lifetime of records, checked under SpecSweep *)

\* SpecSweep: the ledger module with its timer: the clock advances and the
\* setInterval callback keeps being run
NextSweep ==
    \/ Tick
    \/ Cleanup
    \/ \E c \in Codes, m \in ExpiryChoices : LStoreOTP("a@x.com", c, m)
    \/ \E c \in Codes, d \in PendingChoices, m \in ExpiryChoices :
           LStoreSignupOTP("a@x.com", c, d, m)
    \/ \E c \in Codes : LVerifyOTP("a@x.com", c)
    \/ \E c \in Codes : LVerifySignupOTP("a@x.com", c)
    \/ LClearOTP("a@x.com")
    \/ LClearSignupOTP("a@x.com")

SpecSweep == InitLedger /\ [][NextSweep]_vars /\ WF_vars(Tick) /\ WF_vars(Cleanup)

\* the record with expiry x is held under k in the ledger
HeldUntil(store, k, x) == Has(store, k) /\ store[k].expiryTime = x

\* C21: with the sweep firing and the clock advancing, every record stored in
\* either ledger is eventually removed, whatever else happens to it; a
\* reset record verified and never followed by reset-password goes on the
\* basis of the expiry it was stored with, a verify leaving the expiry as it
\* is.  (Expiries up to MaxTime - 1 are the ones the clock of the model gets
\* past.)
C21_EveryRecordEventuallyRemoved ==
    \A x \in 0..(MaxTime - 1) :
        /\ HeldUntil(otpStore, "a@x.com", x) ~> ~HeldUntil(otpStore, "a@x.com", x)
        /\ HeldUntil(signupOtpStore, "a@x.com", x)
              ~> ~HeldUntil(signupOtpStore, "a@x.com", x)

\* C21 witness: a reset record that was verified is held past its expiry,
\* with nothing left to remove it but the sweep
C21_Witness ==
    \E k \in LedgerKeys :
        /\ Has(otpStore, k)
        /\ otpStore[k].verified
        /\ now > otpStore[k].expiryTime

-----------------------------------------------------------------------------
(* Claims about the attempts counter, checked under SpecLedger.  verifyOTP, *)
(* verifySignupOTP and the sweep contain no await: concurrent requests and  *)
(* the timer interleave as whole calls, in any order.                       *)

\* C22: in any interleaving of verify calls, stores, clears and the sweep no
\* update of a record is lost: a verify that returns InvalidCode leaves the
\* record as it was with attempts raised by exactly 1, the attempts of every
\* record held equal the number of wrong-code verify calls made on it, and
\* InvalidCode is returned only while that number is below 5.
C22_NoLostUpdate ==
    [][/\ \A e \in LedgerEmails, c \in Codes :
            LET k == toLowerCase(e)
            IN  /\ (LVerifyOTP(e, c) /\ lastResp'.message = MsgInvalid) =>
                      /\ Has(otpStore, k)
                      /\ wrongCalls.reset[k] < MaxAttempts
                      /\ otpStore'[k] =
                            [otpStore[k] EXCEPT !.attempts = otpStore[k].attempts + 1]
                /\ (LVerifySignupOTP(e, c) /\ lastResp'.message = MsgInvalid) =>
                      /\ Has(signupOtpStore, k)
                      /\ wrongCalls.signup[k] < MaxAttempts
                      /\ signupOtpStore'[k] =
                            [signupOtpStore[k] EXCEPT
                                !.attempts = signupOtpStore[k].attempts + 1]
       /\ \A k \in LedgerKeys :
            /\ Has(otpStore', k) => otpStore'[k].attempts = wrongCalls'.reset[k]
            /\ Has(signupOtpStore', k) =>
                  signupOtpStore'[k].attempts = wrongCalls'.signup[k]]_vars

\* C22 witness: the fifth wrong code on a signup record was answered
\* InvalidCode and the record counts five attempts
C22_Witness ==
    /\ lastResp.op = "verifySignupOTP"
    /\ lastResp.message = MsgInvalid
    /\ lastResp.remainingAttempts = 0
    /\ Has(signupOtpStore, lastResp.key)
    /\ signupOtpStore[lastResp.key].attempts = MaxAttempts
    /\ wrongCalls.signup[lastResp.key] = MaxAttempts

-----------------------------------------------------------------------------
(* Requests the handlers turn away before they reach the credential store *)

\* req.body.password left out
MissingPassword == ""
MsgValidation == "Validation failed"
MsgNeedEmailPassword == "Email and password are required"
MsgNeedEmailNewPassword == "Email and new password are required"

\* validateSignup: the email has no white space and the password is given
validateSignup(email, password) == trim(email) = email /\ password # MissingPassword

\* POST /auth/signup stopped by validateSignup
SignupRejected(email, password) ==
    /\ CanStart
    /\ ~validateSignup(email, password)
    /\ nreq' = nreq + 1
    /\ lastResp' = Resp("signup", 400, FALSE, MsgValidation, NoWarning, NoToken)
    /\ UNCHANGED <<now, inflight, mailLog, resetsDone>>
    /\ UNCHANGED LedgerVars
    /\ UNCHANGED DbVars

\* requestSignupOTP without a password: `if (!email || !password)`
RequestOtpRejected(email) ==
    /\ CanStart
    /\ nreq' = nreq + 1
    /\ lastResp' = Resp("requestSignupOTP", 400, FALSE, MsgNeedEmailPassword,
                        NoWarning, NoToken)
    /\ UNCHANGED <<now, inflight, mailLog, resetsDone>>
    /\ UNCHANGED LedgerVars
    /\ UNCHANGED DbVars

\* resetPassword without a new password: `if (!email || !newPassword)`
ResetRejected(email) ==
    /\ CanStart
    /\ nreq' = nreq + 1
    /\ lastResp' = Resp("resetPassword", 400, FALSE, MsgNeedEmailNewPassword,
                        NoWarning, NoToken)
    /\ UNCHANGED <<now, inflight, mailLog, resetsDone>>
    /\ UNCHANGED LedgerVars
    /\ UNCHANGED DbVars

RejectedSteps ==
    \/ \E e \in HttpEmails, p \in Passwords \cup {MissingPassword} : SignupRejected(e, p)
    \/ \E e \in HttpEmails : RequestOtpRejected(e)
    \/ \E e \in HttpEmails : ResetRejected(e)

\* SpecAccounts: every way an account is created or changed: direct signup,
\* signup with OTP, federated login and password reset
NextAccounts ==
    AccountSteps \/ GoogleSteps \/ SignupOtpSteps \/ ResetSteps \/ RejectedSteps

SpecAccounts == Init /\ [][NextAccounts]_vars

-----------------------------------------------------------------------------
(* Claims about the users table, checked under SpecAccounts *)

\* C23: every row of the users table has a password hash or a google id (or
\* both), and no two rows have the same canonical email.
C23_UsersWellFormed ==
    /\ \A u \in users : u.password # NoPassword \/ u.google_id # ""
    /\ \A u \in users, w \in users : u.email = w.email => u = w
    /\ \A u \in users : u.email = trim(toLowerCase(u.email))

\* C23 witness: a password reset was carried out while the table holds an
\* account that has only a google id
C23_Witness ==
    /\ lastResp.op = "resetPassword"
    /\ lastResp.status = 200
    /\ \E u \in users : u.password = NoPassword /\ u.google_id # ""
    /\ \E u \in users : u.password # NoPassword

-----------------------------------------------------------------------------
(* Claims about the flows' states *)

\* C24: once verify-otp signup has created the account (201), or answered
\* Expired or TooManyAttempts, the next verify-otp signup for that email is
\* answered NotFound, whatever code it carries, as long as no request-otp
\* has stored a new record; and a verify-otp signup goes on to create the
\* account only with the code of the record held.
C24_SignupTerminal ==
    [][\A e \in HttpEmails, c \in Codes :
        LET k == trim(toLowerCase(e))
        IN  /\ (/\ VerifySignupCheck(e, c)
                /\ lastResp.op = "verifySignupOTP"
                /\ \/ lastResp.status = 201 /\ lastResp.token.email = k
                   \/ lastResp.message \in {MsgExpired, MsgTooMany})
                  => (lastResp'.status = 400 /\ lastResp'.message = MsgNotFound
                        /\ inflight' = inflight)
            /\ (VerifySignupCheck(e, c) /\ inflight' # inflight)
                  => (Has(signupOtpStore, k) /\ signupOtpStore[k].otp = c)]_vars

\* C25: while isVerified(email) is true, a verify-otp call for that email,
\* with the right or a wrong code, leaves the record in the ledger and
\* isVerified(email) true.
C25_VerifiedStaysVerified ==
    [][\A e \in LedgerEmails, c \in Codes :
        (LVerifyOTP(e, c) /\ isOTPVerified(otpStore, e, now))
            => (Has(otpStore', toLowerCase(e)) /\ isOTPVerified(otpStore', e, now))]_vars


\* C26: when the credential store raises an unexpected error during the
\* request gate's user lookup, the request ends with a generic 500 response
\* and never with 401, 403, 409 or a success.
C26_StoreErrorIs500 ==
    [][\A r \in inflight :
        AuthenticateFound(r, TRUE)
            => (lastResp'.status = 500 /\ ~lastResp'.attached /\ lastResp'.nextCalls = 0)]_vars


\* C27: a signup request-otp for an email that is already registered is
\* answered 409, creates or overwrites no signup record and dispatches no mail;
\* a request-otp that stores a record and answers 200 leaves the user table
\* unchanged.
C27_RegisteredEmailIsConflict ==
    [][/\ \A e \in HttpEmails, p \in Passwords :
            (/\ RequestOtpFind(e, p)
             /\ \E u \in users : u.email = trim(toLowerCase(e)))
                => /\ lastResp'.op = "requestSignupOTP"
                   /\ lastResp'.status = 409
                   /\ signupOtpStore' = signupOtpStore
                   /\ mailLog' = mailLog
                   /\ inflight' = inflight
       /\ \A r \in inflight, otp \in Codes, mailed \in BOOLEAN :
            RequestOtpStore(r, otp, mailed)
                => /\ lastResp'.status = 200
                   /\ users' = users
                   /\ nextId' = nextId]_vars

C27_Witness ==
    /\ lastResp.op = "requestSignupOTP"
    /\ lastResp.status = 409
    /\ \E u \in users : u.email = "a@x.com"
    /\ ~Has(signupOtpStore, "a@x.com")
    /\ mailLog = 0


\* C28: the attempts counter of every record of either ledger lies in 0..5; a
\* step changes the counter of a record only by +1, on a verify of that email
\* that returns InvalidCode, or to 0, on a store for that email; a successful
\* verify leaves it as it was; and the remaining tries reported with
\* InvalidCode are 5 minus the counter after the increment, hence in 0..4.
AttemptsStep(store, storeAfter, storedKeys, verifyOp) ==
    \A k \in LedgerKeys :
        /\ Has(storeAfter, k) => storeAfter[k].attempts \in 0..MaxAttempts
        /\ (Has(store, k) /\ Has(storeAfter, k)
              /\ storeAfter[k].attempts # store[k].attempts)
             => \/ /\ storeAfter[k].attempts = store[k].attempts + 1
                   /\ lastResp'.op = verifyOp
                   /\ lastResp'.key = k
                   /\ lastResp'.message = MsgInvalid
                \/ /\ storeAfter[k].attempts = 0
                   /\ k \in storedKeys
        /\ (~Has(store, k) /\ Has(storeAfter, k))
             => (storeAfter[k].attempts = 0 /\ k \in storedKeys)

C28_AttemptsBounded ==
    [][/\ AttemptsStep(otpStore, otpStore',
                       {k \in LedgerKeys : \E e \in LedgerEmails, c \in Codes, x \in ExpiryChoices :
                                               toLowerCase(e) = k /\ LStoreOTP(e, c, x)},
                       "verifyOTP")
       /\ AttemptsStep(signupOtpStore, signupOtpStore',
                       {k \in LedgerKeys : \E e \in LedgerEmails, c \in Codes,
                                               d \in PendingChoices, x \in ExpiryChoices :
                                               toLowerCase(e) = k /\ LStoreSignupOTP(e, c, d, x)},
                       "verifySignupOTP")
       /\ \A e \in LedgerEmails, c \in Codes :
            /\ (LVerifyOTP(e, c) /\ lastResp'.success)
                 => otpStore'[toLowerCase(e)].attempts = otpStore[toLowerCase(e)].attempts
            /\ (LVerifySignupOTP(e, c) /\ lastResp'.success)
                 => signupOtpStore'[toLowerCase(e)].attempts
                       = signupOtpStore[toLowerCase(e)].attempts
            /\ ((LVerifyOTP(e, c) \/ LVerifySignupOTP(e, c)) /\ lastResp'.message = MsgInvalid)
                 => /\ lastResp'.remainingAttempts = MaxAttempts - (lastResp'.attemptsBefore + 1)
                    /\ lastResp'.remainingAttempts \in 0..(MaxAttempts - 1)]_vars

C28_Witness ==
    /\ lastResp.op = "verifySignupOTP"
    /\ lastResp.message = MsgInvalid
    /\ lastResp.remainingAttempts = 0
    /\ Has(signupOtpStore, lastResp.key)
    /\ signupOtpStore[lastResp.key].attempts = MaxAttempts


\* C29: a reset-password request that arrives after the expiry of the reset
\* record of its email is answered 403 and changes no password, also when
\* verify-otp succeeded on that record before it expired; and in every state
\* where isOTPVerified(email) is true, verifyOTP for that email does not
\* return Expired, whatever the code.
C29_NoResetOnExpiredOtp ==
    /\ [](\A e \in HttpEmails, c \in Codes :
            isOTPVerified(otpStore, e, now)
                => verifyOTPUtil(otpStore, e, c, now).result.message # MsgExpired)
    /\ [][\A e \in HttpEmails, p \in Passwords :
            LET k == trim(toLowerCase(e))
            IN  (/\ ResetGate(e, p)
                 /\ Has(otpStore, k)
                 /\ now > otpStore[k].expiryTime)
                    => /\ lastResp'.op = "resetPassword"
                       /\ lastResp'.status = 403
                       /\ inflight' = inflight
                       /\ users' = users]_vars

C29_Witness ==
    /\ lastResp.op = "resetPassword"
    /\ lastResp.status = 403
    /\ Has(otpStore, "a@x.com")
    /\ otpStore["a@x.com"].verified
    /\ now > otpStore["a@x.com"].expiryTime
    /\ Registered("a@x.com")


-----------------------------------------------------------------------------
(* The message handlers: controllers/emailController.js over models/Email.js *)
(* and the temp_emails table; every route runs behind authenticate, so      *)
(* req.user is a row of the users table                                      *)

TempAddresses == {"temp_1@tempmailx.com", "temp_2@tempmailx.com"}
\* req.body.from: an address, or nothing
FromAddresses == TempAddresses \cup {""}
Recipients == {"friend@y.com"}
\* req.params.id
EmailIds == {1, 2}

NoEmail == [absent |-> TRUE]

\* User.getTempEmails(userId)
getTempEmails(rows, userId) ==
    {t.email_address : t \in {x \in rows : x.user_id = userId}}

\* User.addTempEmail(userId, tempEmail): temp_emails.email_address is UNIQUE
addTempEmail(rows, userId, tempEmail) ==
    IF \E t \in rows : t.email_address = tempEmail
    THEN [ok |-> FALSE, rows |-> rows]
    ELSE [ok |-> TRUE,
          rows |-> rows \cup {[user_id |-> userId, email_address |-> tempEmail]}]

\* Email.findById(id)
EmailFindById(rows, id) ==
    IF \E m \in rows : m.id = id THEN CHOOSE m \in rows : m.id = id ELSE NoEmail

\* Email.create({from, to, subject, body, type, userId}): the inserted row
EmailCreate(id, from, to, type, userId) ==
    [id |-> id, from_email |-> from, to_email |-> to, type |-> type, user_id |-> userId]

\* Email.deleteById(id)
EmailDeleteById(rows, id) == {m \in rows : m.id # id}

\* validateEmailSend on from and to (subject and body are always given)
validateEmailSend(from, to) == from # "" /\ to # ""


\* a response of a message handler: the caller, the id asked for and the
\* message row in the body
MailResp(op, userId, id, status, message, email) ==
    [op |-> op, userId |-> userId, id |-> id, status |-> status,
     success |-> status < 400, message |-> message, email |-> email]

\* a message request suspended at an await
MailReq(rid, op, pc, user, id, from, to) ==
    Req(rid, op, pc, "", NoPassword, NoUserData, user, "")
        @@ [id |-> id, from |-> from, to |-> to]

\* POST /email/create; tempEmail is generateTempEmail()'s value
CreateTempEmail(user, tempEmail) ==
    /\ CanStart
    /\ nreq' = nreq + 1
    /\ LET a == addTempEmail(tempEmails, user.id, tempEmail)
       IN  /\ tempEmails' = a.rows
           /\ lastResp' = IF a.ok
                          THEN MailResp("createTempEmail", user.id, 0, 201, "Temporary email created successfully", NoEmail)
                          ELSE MailResp("createTempEmail", user.id, 0, 500, "Failed to create temporary email", NoEmail)
    /\ UNCHANGED <<now, users, nextId, emails, nextEmailId, inflight, mailLog, resetsDone>>
    /\ UNCHANGED LedgerVars

\* GET /email/:id that returns whatever row has the id
GetEmailById_NoOwnerCheck(user, id) ==
    /\ CanStart
    /\ nreq' = nreq + 1
    /\ LET email == EmailFindById(emails, id)
       IN  lastResp' = IF email = NoEmail
                       THEN MailResp("getEmailById", user.id, id, 404, "Email not found or expired", NoEmail)
                       ELSE MailResp("getEmailById", user.id, id, 200, "", email)
    /\ UNCHANGED <<now, inflight, mailLog, resetsDone>>
    /\ UNCHANGED LedgerVars
    /\ UNCHANGED DbVars

\* GET /email/:id
GetEmailById(user, id) ==
    /\ CanStart
    /\ nreq' = nreq + 1
    /\ LET email == EmailFindById(emails, id)
       IN  lastResp' = IF email = NoEmail \/ email.user_id # user.id
                       THEN MailResp("getEmailById", user.id, id, 404, "Email not found or expired", NoEmail)
                       ELSE MailResp("getEmailById", user.id, id, 200, "", email)
    /\ UNCHANGED <<now, inflight, mailLog, resetsDone>>
    /\ UNCHANGED LedgerVars
    /\ UNCHANGED DbVars

\* POST /email/send: validateEmailSend, then sendEmail up to `await Email.create(...)`
SendEmailCheck(user, from, to) ==
    /\ CanStart
    /\ nreq' = nreq + 1
    /\ IF ~validateEmailSend(from, to)
       THEN /\ lastResp' = MailResp("sendEmail", user.id, 0, 400, MsgValidation, NoEmail)
            /\ inflight' = inflight
       ELSE IF from \notin getTempEmails(tempEmails, user.id)
       THEN /\ lastResp' = MailResp("sendEmail", user.id, 0, 403, "You can only send emails from your temporary email addresses", NoEmail)
            /\ inflight' = inflight
       ELSE /\ CanSuspend
            /\ inflight' = inflight \cup {MailReq(nreq', "sendEmail", "create", user, 0, from, to)}
            /\ lastResp' = lastResp
    /\ UNCHANGED <<now, mailLog, resetsDone>>
    /\ UNCHANGED LedgerVars
    /\ UNCHANGED DbVars

\* sendEmail from the insert of Email.create to the 201
SendEmailCreate(r) ==
    /\ r.op = "sendEmail" /\ r.pc = "create"
    /\ LET email == EmailCreate(nextEmailId, r.from, r.to, "sent", r.user.id)
       IN  /\ emails' = emails \cup {email}
           /\ lastResp' = MailResp("sendEmail", r.user.id, email.id, 201, "Email sent successfully", email)
    /\ nextEmailId' = nextEmailId + 1
    /\ inflight' = inflight \ {r}
    /\ UNCHANGED <<now, users, nextId, tempEmails, mailLog, nreq, resetsDone>>
    /\ UNCHANGED LedgerVars

\* DELETE /email/:id up to `await Email.deleteById(id)`
DeleteEmailCheck(user, id) ==
    /\ CanStart
    /\ nreq' = nreq + 1
    /\ LET email == EmailFindById(emails, id)
       IN  IF email = NoEmail \/ email.user_id # user.id
           THEN /\ lastResp' = MailResp("deleteEmail", user.id, id, 404, "Email not found or you are not authorized to delete it", NoEmail)
                /\ inflight' = inflight
           ELSE /\ CanSuspend
                /\ inflight' = inflight \cup {MailReq(nreq', "deleteEmail", "delete", user, id, "", "")}
                /\ lastResp' = lastResp
    /\ UNCHANGED <<now, mailLog, resetsDone>>
    /\ UNCHANGED LedgerVars
    /\ UNCHANGED DbVars

\* deleteEmail from the delete of Email.deleteById to the 200
DeleteEmailById(r) ==
    /\ r.op = "deleteEmail" /\ r.pc = "delete"
    /\ emails' = EmailDeleteById(emails, r.id)
    /\ lastResp' = MailResp("deleteEmail", r.user.id, r.id, 200, "Email deleted successfully", NoEmail)
    /\ inflight' = inflight \ {r}
    /\ UNCHANGED <<now, users, nextId, tempEmails, nextEmailId, mailLog, nreq, resetsDone>>
    /\ UNCHANGED LedgerVars

MailSteps ==
    \/ \E u \in users, t \in TempAddresses : CreateTempEmail(u, t)
    \/ \E u \in users, id \in EmailIds : GetEmailById(u, id)
    \/ \E u \in users, f \in FromAddresses, t \in Recipients : SendEmailCheck(u, f, t)
    \/ \E r \in inflight : SendEmailCreate(r)
    \/ \E u \in users, id \in EmailIds : DeleteEmailCheck(u, id)
    \/ \E r \in inflight : DeleteEmailById(r)

\* SpecMail: the message handlers next to direct signup, password login and
\* Google sign-in
NextMail == AccountSteps \/ GoogleSteps \/ MailSteps

SpecMail == Init /\ [][NextMail]_vars

\* C30: get-by-id and delete on a message whose user_id is not the caller's id
\* answer 404 and leave the message in place, a message is only returned to
\* and only deleted for the user whose id it carries, a send whose from
\* address is not one of the caller's temporary addresses answers 403 and
\* stores nothing, and every message stored by a send carries a from address
\* registered to its user.
C30_OwnMessagesOnly ==
    [][/\ \A u \in users, id \in EmailIds :
            LET foreign == \E m \in emails : m.id = id /\ m.user_id # u.id
            IN  /\ (GetEmailById(u, id) /\ foreign)
                      => (lastResp'.status = 404 /\ emails' = emails)
                /\ (GetEmailById(u, id) /\ lastResp'.status = 200)
                      => (lastResp'.email \in emails /\ lastResp'.email.user_id = u.id)
                /\ (DeleteEmailCheck(u, id) /\ foreign)
                      => (lastResp'.status = 404 /\ emails' = emails /\ inflight' = inflight)
       /\ \A m \in emails \ emails' :
            \E r \in inflight : DeleteEmailById(r) /\ r.user.id = m.user_id
       /\ \A u \in users, f \in FromAddresses, t \in Recipients :
            (SendEmailCheck(u, f, t)
               /\ ~\E x \in tempEmails : x.user_id = u.id /\ x.email_address = f)
                  => (lastResp'.status \in {400, 403} /\ emails' = emails
                        /\ inflight' = inflight)
       /\ \A m \in emails' \ emails :
            \E x \in tempEmails : x.user_id = m.user_id /\ x.email_address = m.from_email]_vars

C30_Witness ==
    /\ lastResp.op \in {"getEmailById", "deleteEmail"}
    /\ lastResp.status = 404
    /\ \E m \in emails : m.id = lastResp.id /\ m.user_id # lastResp.userId

=============================================================================
